---- MODULE Spec2Model ----
(***************************************************************************)
(* Fork-alert subsystem of the AlephBFT consensus engine.                  *)
(*                                                                         *)
(*   - the alert handler (struct Alerter, consensus/src/alerts/mod.rs),    *)
(*   - the two event loops that drive it: alerts::run (alerts/mod.rs) and  *)
(*     Service::run (alerts/service.rs),                                   *)
(*   - the backup saver (runway/backup.rs),                                *)
(*   - the reliable multicast engine, which lives in the aleph_bft_rmc     *)
(*     crate and is modelled from its specification.                       *)
(*                                                                         *)
(* Signatures follow the mock keychain: a signature records the index of   *)
(* the key that produced it over exactly the signed content; BadSig is any *)
(* signature that does not verify (wrong bytes or a signature over other   *)
(* content).  Hashes are collision free: the hash of an alert is its       *)
(* encoded content (sender, proof, legit_units).                           *)
(***************************************************************************)
EXTENDS Integers, Sequences, FiniteSets, TLC

VARIABLES
    alerter,                  \* the handler's state at the local node (struct Alerter)
    call,                     \* SpecHandler: the last handler call, its argument, result and pre-state
    proof,                    \* SpecForkProof: the fork proof under examination
    who,                      \* SpecForkProof: result of who_is_forking(proof), NotCalled before the call
    accepted,                 \* SpecForkProof: result of on_network_alert for an alert carrying proof
    loader,                   \* BackupLoader: the backup it reads, its position in run, what it has sent
    units_from_runway,        \* channel runway -> BackupSaver
    responses_for_runway,     \* channel BackupSaver -> runway
    wire,                     \* an AlertMessage on its way through the codec
    schedule,                 \* SpecSchedule: per hash, what the RMC engine has emitted
    hashing,                  \* SpecHashCache: an alert, its clone, their cached hashes, the callers of hash()
    nodes,                    \* SpecNet: handler, RMC engine and confirmations of every honest node
    environment,              \* event loops: what reaches this node, see Environments
    own_alert_responses,      \* Service: OnOwnAlertResponse by alert hash, waiting for the backup
    network_alert_responses,  \* Service: OnNetworkAlertResponse by alert hash, waiting for the backup
    multisigned_notifications,\* Service: ForkingNotification by alert hash, waiting for the backup
    data_for_backup,          \* channel Service -> BackupSaver (data_from_alerter)
    responses_from_backup,    \* channel BackupSaver -> Service (responses_for_alerter)
    backup,                   \* the backup log: the records written and flushed, in file order
    saver,                    \* BackupSaver::run: "running" or "stopped"
    service,                  \* the alert event loop: "running" or "stopped"
    messages_for_network,     \* what the loop has sent to the network: (message, recipient) pairs
    notifications_for_units,  \* what the loop has sent to consensus, in order
    messages_for_rmc,         \* channel event loop -> RMC engine
    rmc,                      \* the RMC engine
    confirmations             \* the hashes alert_confirmed was invoked with on an RMC completion, in order

handlerVars == <<call, proof, who, accepted>>
backupVars == <<data_for_backup, responses_from_backup, backup, saver>>
pendingVars == <<own_alert_responses, network_alert_responses, multisigned_notifications>>
outVars == <<messages_for_network, notifications_for_units>>
storageVars == <<loader, units_from_runway, responses_for_runway, wire, schedule, hashing>>
inputVars == <<call, proof, who, accepted, environment, nodes, storageVars>>
rmcVars == <<messages_for_rmc, rmc, confirmations>>
loopVars == <<storageVars, nodes, environment, pendingVars, backupVars, service, outVars, rmcVars>>

vars == <<alerter, handlerVars, loopVars>>

(***************************************************************************)
(* Configuration and small helpers                                         *)
(***************************************************************************)

\* AlertConfig.n_members
n_members == 4

Nodes == 0 .. (n_members - 1)

\* Keychain::quorum
quorum == (2 * n_members) \div 3 + 1

\* the local node's index (keychain.index())
Own == 0

\* a signature that verifies for nobody
BadSig == -1

None == [tag |-> "None"]
Some(v) == [tag |-> "Some", val |-> v]
NotCalled == [tag |-> "NotCalled"]

\* HashMap helpers
EmptyMap == << >>

\* no alert is being hashed
NoHashing == [pc |-> "idle"]
Put(m, k, v) == [x \in (DOMAIN m) \cup {k} |-> IF x = k THEN v ELSE m[x]]
Remove(m, k) == [x \in (DOMAIN m) \ {k} |-> m[x]]
Get(m, k) == IF k \in DOMAIN m THEN Some(m[k]) ELSE None

Everyone == [tag |-> "Everyone"]
Node(n) == [tag |-> "Node", node |-> n]

(***************************************************************************)
(* Units, fork proofs, alerts                                              *)
(***************************************************************************)

\* UncheckedSignedUnit: a FullUnit (creator, round, session_id, data) and a signature
Unit(c, r, s, v, g) ==
    [creator |-> c, round |-> r, session_id |-> s, variant |-> v, signature |-> g]

\* as_signable(): the unit without its signature
FullUnit(u) ==
    [creator |-> u.creator, round |-> u.round, session_id |-> u.session_id, variant |-> u.variant]

\* KeyBox::verify of the mock keychain: the signature is by `index` over this content
verify(signature, index) == signature = index

\* UncheckedSigned<FullUnit>::check(keychain): verified against the unit's creator
check_unit(u) == verify(u.signature, u.creator)

\* Alert::new(sender, proof, legit_units)
Alert(s, p, l) == [sender |-> s, proof |-> p, legit_units |-> l]

\* Alert::hash: H::hash of the encoding of sender, proof, legit_units
Hash(alert) == <<"H", alert.sender, alert.proof, alert.legit_units>>

\* Alert::forker
forker_of(alert) == alert.proof[1].creator

\* Signed / UncheckedSigned<Alert>
SignedAlert(alert, g) == [signable |-> alert, signature |-> g]

\* Signed::sign(alert, keychain)
Sign(alert, index) == SignedAlert(alert, index)

\* UncheckedSigned<Alert>::check(keychain): verified against alert.sender (Index for Alert)
check_alert(sa) == verify(sa.signature, sa.signable.sender)

ForkAlert(sa) == [tag |-> "ForkAlert", alert |-> sa]
RmcMessage(sender, m) == [tag |-> "RmcMessage", sender |-> sender, message |-> m]
AlertRequest(node, h) == [tag |-> "AlertRequest", node |-> node, hash |-> h]

SignedHash(h, signer) == [kind |-> "SignedHash", hash |-> h, signers |-> {signer}]
MultisignedHash(h, signers) == [kind |-> "MultisignedHash", hash |-> h, signers |-> signers]

\* MultiKeychain::is_complete of the mock keychain: at least quorum signatures, all verifying
keychain_is_complete(signers) == Cardinality(signers) >= quorum

\* Message::is_complete
is_complete(m) == m.kind = "MultisignedHash" /\ keychain_is_complete(m.signers)

Forker(p) == [tag |-> "Forker", proof |-> p]
Units(l) == [tag |-> "Units", units |-> l]

(***************************************************************************)
(* The alert handler (struct Alerter)                                      *)
(***************************************************************************)

\* Alerter::new
NewAlerter(index, session) ==
    [index |-> index, session_id |-> session,
     known_forkers |-> EmptyMap, known_alerts |-> EmptyMap, known_rmcs |-> EmptyMap]

\* Alerter::is_forker
is_forker(a, forker) == forker \in DOMAIN a.known_forkers

RECURSIVE commitment_from(_, _, _, _)
commitment_from(forker, units, i, rounds) ==
    IF i > Len(units) THEN TRUE
    ELSE IF ~check_unit(units[i]) THEN FALSE
    ELSE IF units[i].creator # forker THEN FALSE
    ELSE IF units[i].round \in rounds THEN FALSE
    ELSE commitment_from(forker, units, i + 1, rounds \cup {units[i].round})

\* Alerter::correct_commitment
correct_commitment(a, forker, units) == commitment_from(forker, units, 1, {})

who_is_forking_no_round_check(a, p) ==
    LET u1 == p[1]
        u2 == p[2]
    IN  IF ~(check_unit(u1) /\ check_unit(u2)) THEN None
        ELSE IF u1.session_id # a.session_id \/ u2.session_id # a.session_id THEN None
        ELSE IF FullUnit(u1) = FullUnit(u2) THEN None
        ELSE IF u1.creator # u2.creator THEN None
        ELSE Some(u1.creator)

\* Alerter::who_is_forking
who_is_forking(a, p) ==
    LET u1 == p[1]
        u2 == p[2]
    IN  IF ~(check_unit(u1) /\ check_unit(u2)) THEN None
        ELSE IF u1.session_id # a.session_id \/ u2.session_id # a.session_id THEN None
        ELSE IF FullUnit(u1) = FullUnit(u2) THEN None
        ELSE IF u1.creator # u2.creator THEN None
        ELSE IF u1.round # u2.round THEN None
        ELSE Some(u1.creator)

rmc_alert_designating_only(a, forker, sa) ==
    [a EXCEPT !.known_rmcs = Put(@, <<sa.signable.sender, forker>>, Hash(sa.signable))]

\* Alerter::rmc_alert: the handler after registering the signed alert for `forker`
rmc_alert(a, forker, sa) ==
    [a EXCEPT !.known_rmcs = Put(@, <<sa.signable.sender, forker>>, Hash(sa.signable)),
              !.known_alerts = Put(@, Hash(sa.signable), sa)]

on_own_alert_unregistered(a, alert) ==
    LET forker == forker_of(alert)
        sa == Sign(alert, a.index)
    IN  [alerter |-> rmc_alert(a, forker, sa),
         response |-> [message |-> ForkAlert(sa), recipient |-> Everyone, hash |-> Hash(alert)]]

\* Alerter::on_own_alert: the new handler state and the returned triple
on_own_alert(a, alert) ==
    LET forker == forker_of(alert)
        a1 == [a EXCEPT !.known_forkers = Put(@, forker, alert.proof)]
        sa == Sign(alert, a.index)
    IN  [alerter |-> rmc_alert(a1, forker, sa),
         response |-> [message |-> ForkAlert(sa), recipient |-> Everyone, hash |-> Hash(alert)]]

on_network_alert_caching_first(a, sa) ==
    LET contents == sa.signable
        cached == [a EXCEPT !.known_alerts = Put(@, Hash(contents), sa)]
        forking == who_is_forking(a, contents.proof)
    IN  IF ~check_alert(sa) THEN [alerter |-> cached, response |-> None]
        ELSE IF forking = None THEN [alerter |-> cached, response |-> None]
        ELSE LET forker == forking.val
             IN  IF <<contents.sender, forker>> \in DOMAIN a.known_rmcs
                 THEN [alerter |-> cached, response |-> None]
                 ELSE LET known == is_forker(a, forker)
                          a1 == IF known THEN a
                                ELSE [a EXCEPT !.known_forkers = Put(@, forker, contents.proof)]
                      IN  [alerter |-> rmc_alert(a1, forker, sa),
                           response |-> Some([notification |->
                                                 IF known THEN None ELSE Some(Forker(contents.proof)),
                                              hash |-> Hash(contents)])]

on_network_alert_signing_repeated(a, sa) ==
    LET contents == sa.signable
        forking == who_is_forking(a, contents.proof)
    IN  IF ~check_alert(sa) THEN [alerter |-> a, response |-> None]
        ELSE IF forking = None THEN [alerter |-> a, response |-> None]
        ELSE LET forker == forking.val
                 known == is_forker(a, forker)
                 a1 == IF known THEN a
                       ELSE [a EXCEPT !.known_forkers = Put(@, forker, contents.proof)]
             IN  [alerter |-> rmc_alert(a1, forker, sa),
                  response |-> Some([notification |->
                                        IF known THEN None ELSE Some(Forker(contents.proof)),
                                     hash |-> Hash(contents)])]

on_network_alert_dropping_repeated(a, sa) ==
    LET contents == sa.signable
        forking == who_is_forking(a, contents.proof)
    IN  IF ~check_alert(sa) THEN [alerter |-> a, response |-> None]
        ELSE IF forking = None THEN [alerter |-> a, response |-> None]
        ELSE LET forker == forking.val
             IN  IF <<contents.sender, forker>> \in DOMAIN a.known_rmcs
                 THEN [alerter |-> a, response |-> None]
                 ELSE LET known == is_forker(a, forker)
                          a1 == IF known THEN a
                                ELSE [a EXCEPT !.known_forkers = Put(@, forker, contents.proof)]
                      IN  [alerter |-> rmc_alert(a1, forker, sa),
                           response |-> Some([notification |->
                                                 IF known THEN None ELSE Some(Forker(contents.proof)),
                                              hash |-> Hash(contents)])]

on_network_alert_notifying_known(a, sa) ==
    LET contents == sa.signable
        forking == who_is_forking(a, contents.proof)
    IN  IF ~check_alert(sa) THEN [alerter |-> a, response |-> None]
        ELSE IF forking = None THEN [alerter |-> a, response |-> None]
        ELSE LET forker == forking.val
             IN  IF <<contents.sender, forker>> \in DOMAIN a.known_rmcs
                 THEN [alerter |-> [a EXCEPT !.known_alerts = Put(@, Hash(contents), sa)],
                       response |-> None]
                 ELSE LET a1 == [a EXCEPT !.known_forkers = Put(@, forker, contents.proof)]
                      IN  [alerter |-> rmc_alert(a1, forker, sa),
                           response |-> Some([notification |-> Some(Forker(contents.proof)),
                                              hash |-> Hash(contents)])]

on_network_alert_redesignating(a, sa) ==
    LET contents == sa.signable
        forking == who_is_forking(a, contents.proof)
    IN  IF ~check_alert(sa) THEN [alerter |-> a, response |-> None]
        ELSE IF forking = None THEN [alerter |-> a, response |-> None]
        ELSE LET forker == forking.val
             IN  IF <<contents.sender, forker>> \in DOMAIN a.known_rmcs
                 THEN [alerter |-> rmc_alert(a, forker, sa), response |-> None]
                 ELSE LET known == is_forker(a, forker)
                          a1 == IF known THEN a
                                ELSE [a EXCEPT !.known_forkers = Put(@, forker, contents.proof)]
                      IN  [alerter |-> rmc_alert(a1, forker, sa),
                           response |-> Some([notification |->
                                                 IF known THEN None ELSE Some(Forker(contents.proof)),
                                              hash |-> Hash(contents)])]

\* Alerter::on_network_alert: the new handler state and the returned Option
on_network_alert(a, sa) ==
    LET contents == sa.signable
        forking == who_is_forking(a, contents.proof)
    IN  IF ~check_alert(sa) THEN [alerter |-> a, response |-> None]
        ELSE IF forking = None THEN [alerter |-> a, response |-> None]
        ELSE LET forker == forking.val
             IN  IF <<contents.sender, forker>> \in DOMAIN a.known_rmcs
                 THEN [alerter |-> [a EXCEPT !.known_alerts = Put(@, Hash(contents), sa)],
                       response |-> None]
                 ELSE LET known == is_forker(a, forker)
                          a1 == IF known THEN a
                                ELSE [a EXCEPT !.known_forkers = Put(@, forker, contents.proof)]
                      IN  [alerter |-> rmc_alert(a1, forker, sa),
                           response |-> Some([notification |->
                                                 IF known THEN None ELSE Some(Forker(contents.proof)),
                                              hash |-> Hash(contents)])]

on_rmc_message_forwarding_unknown(a, sender, m) == Some([tag |-> "RmcMessage", message |-> m])

on_rmc_message_complete_only(a, sender, m) ==
    IF m.hash \in DOMAIN a.known_alerts
    THEN IF is_complete(m) THEN Some([tag |-> "RmcMessage", message |-> m]) ELSE None
    ELSE Some([tag |-> "AlertRequest", hash |-> m.hash, recipient |-> Node(sender)])

on_rmc_message_forwarding_stale(a, sender, m) ==
    IF m.hash \in DOMAIN a.known_alerts
    THEN Some([tag |-> "RmcMessage", message |-> m])
    ELSE Some([tag |-> "AlertRequest", hash |-> m.hash, recipient |-> Node(sender)])

on_rmc_message_asking_everyone(a, sender, m) ==
    IF m.hash \in DOMAIN a.known_alerts
    THEN LET alert == a.known_alerts[m.hash].signable
         IN  IF Get(a.known_rmcs, <<alert.sender, forker_of(alert)>>) = Some(m.hash) \/ is_complete(m)
             THEN Some([tag |-> "RmcMessage", message |-> m])
             ELSE None
    ELSE Some([tag |-> "AlertRequest", hash |-> m.hash, recipient |-> Everyone])

\* Alerter::on_message, RmcMessage branch: the response (the handler is not changed)
on_rmc_message(a, sender, m) ==
    IF m.hash \in DOMAIN a.known_alerts
    THEN LET alert == a.known_alerts[m.hash].signable
             alert_id == <<alert.sender, forker_of(alert)>>
         IN  IF Get(a.known_rmcs, alert_id) = Some(m.hash) \/ is_complete(m)
             THEN Some([tag |-> "RmcMessage", message |-> m])
             ELSE None
    ELSE Some([tag |-> "AlertRequest", hash |-> m.hash, recipient |-> Node(sender)])

on_alert_request_to_everyone(a, node, h) ==
    IF h \in DOMAIN a.known_alerts
    THEN Some([tag |-> "ForkAlert", alert |-> a.known_alerts[h], recipient |-> Everyone])
    ELSE None

\* Alerter::on_message, AlertRequest branch
on_alert_request(a, node, h) ==
    IF h \in DOMAIN a.known_alerts
    THEN Some([tag |-> "ForkAlert", alert |-> a.known_alerts[h], recipient |-> Node(node)])
    ELSE None

alert_confirmed_unchecked(a, h) ==
    IF h \notin DOMAIN a.known_alerts THEN [alerter |-> a, response |-> None]
    ELSE LET alert == a.known_alerts[h].signable
             forker == alert.proof[1].creator
         IN  [alerter |-> [a EXCEPT !.known_rmcs = Put(@, <<alert.sender, forker>>, Hash(alert))],
              response |-> Some(Units(alert.legit_units))]

alert_confirmed_validating_first(a, h) ==
    IF h \notin DOMAIN a.known_alerts THEN [alerter |-> a, response |-> None]
    ELSE LET alert == a.known_alerts[h].signable
             forker == alert.proof[1].creator
         IN  IF ~correct_commitment(a, forker, alert.legit_units)
             THEN [alerter |-> a, response |-> None]
             ELSE [alerter |-> [a EXCEPT !.known_rmcs =
                                             Put(@, <<alert.sender, forker>>, Hash(alert))],
                   response |-> Some(Units(alert.legit_units))]

alert_confirmed_dropping_alert(a, h) ==
    IF h \notin DOMAIN a.known_alerts THEN [alerter |-> a, response |-> None]
    ELSE LET alert == a.known_alerts[h].signable
             forker == alert.proof[1].creator
             a1 == [a EXCEPT !.known_rmcs = Put(@, <<alert.sender, forker>>, Hash(alert)),
                             !.known_alerts = Remove(@, h)]
         IN  IF ~correct_commitment(a1, forker, alert.legit_units)
             THEN [alerter |-> a1, response |-> None]
             ELSE [alerter |-> a1, response |-> Some(Units(alert.legit_units))]

\* Alerter::alert_confirmed: the new handler state and the returned Option
alert_confirmed(a, h) ==
    IF h \notin DOMAIN a.known_alerts THEN [alerter |-> a, response |-> None]
    ELSE LET alert == a.known_alerts[h].signable
             forker == alert.proof[1].creator
             a1 == [a EXCEPT !.known_rmcs = Put(@, <<alert.sender, forker>>, Hash(alert))]
         IN  IF ~correct_commitment(a1, forker, alert.legit_units)
             THEN [alerter |-> a1, response |-> None]
             ELSE [alerter |-> a1, response |-> Some(Units(alert.legit_units))]

(***************************************************************************)
(* The reliable multicast engine (crate aleph_bft_rmc, not in this         *)
(* repository's files): per hash, the signatures gathered so far; a hash   *)
(* completes once on reaching the quorum or on a verifying Complete        *)
(* message, and is then reported once.                                     *)
(***************************************************************************)

NewRmc == [started |-> {}, sigs |-> EmptyMap, multisigned |-> {}, unreported |-> {}]

rmc_sigs(r, h) == IF h \in DOMAIN r.sigs THEN r.sigs[h] ELSE {}

rmc_complete(r, h, signers) ==
    [r EXCEPT !.sigs = Put(@, h, signers),
              !.multisigned = @ \cup {h},
              !.unreported = @ \cup {h}]

\* a partial signature, the node's own (start) or a peer's (PartialSig)
rmc_add_signature(r, h, signer) ==
    IF h \in r.multisigned THEN r
    ELSE LET s == rmc_sigs(r, h) \cup {signer}
         IN  IF keychain_is_complete(s) THEN rmc_complete(r, h, s)
             ELSE [r EXCEPT !.sigs = Put(@, h, s)]

\* start(hash)
rmc_start(r, h, own) == rmc_add_signature([r EXCEPT !.started = @ \cup {h}], h, own)

\* an incoming PartialSig or Complete message
rmc_receive(r, m) ==
    IF m.hash \in r.multisigned THEN r
    ELSE IF m.kind = "MultisignedHash"
         THEN IF keychain_is_complete(m.signers) THEN rmc_complete(r, m.hash, m.signers) ELSE r
         ELSE rmc_add_signature(r, m.hash, CHOOSE g \in m.signers : TRUE)

StartRmc(h) == [tag |-> "StartRmc", hash |-> h]
RmcHash(m) == [tag |-> "RmcHash", message |-> m]

\* the engine handling one incoming message
rmc_handle(r, own, msg) ==
    IF msg.tag = "StartRmc" THEN rmc_start(r, msg.hash, own) ELSE rmc_receive(r, msg.message)

(***************************************************************************)
(* State of an event loop after construction                               *)
(***************************************************************************)

\* the session the local node runs (AlertConfig.session_id)
session_id == 0

\* fewer than n_members / 3 members are Byzantine: with four members, one
Byzantine == n_members - 1
Honest == Nodes \ {Byzantine}

\* every honest member after run has constructed its Alerter and ReliableMulticast
InitNodes ==
    [n \in Honest |-> [alerter |-> NewAlerter(n, session_id), rmc |-> NewRmc, confirmed |-> << >>]]

\* no backup is being loaded and the runway has submitted nothing
InitStorage ==
    /\ loader = [pc |-> "idle"]
    /\ units_from_runway = << >>
    /\ responses_for_runway = << >>
    /\ wire = [pc |-> "idle"]
    /\ schedule = EmptyMap
    /\ hashing = NoHashing

\* Service::new, BackupSaver::new, an empty backup file
InitLoop ==
    /\ nodes = InitNodes
    /\ own_alert_responses = EmptyMap
    /\ network_alert_responses = EmptyMap
    /\ multisigned_notifications = EmptyMap
    /\ data_for_backup = << >>
    /\ responses_from_backup = << >>
    /\ backup = << >>
    /\ saver = "running"
    /\ service = "running"
    /\ messages_for_network = {}
    /\ notifications_for_units = << >>
    /\ messages_for_rmc = << >>
    /\ rmc = NewRmc
    /\ confirmations = << >>

(***************************************************************************)
(* Inputs of the handler specifications                                    *)
(***************************************************************************)

MaxRound == 1
MaxSession == 1
MaxVariant == 1
MaxKnownAlerts == 2

Rounds == 0 .. MaxRound
Sessions == 0 .. MaxSession

\* the node that equivocates, and another creator
F == n_members - 1
G == n_members - 2

\* every unit two creators can be given, with a signature by either or a bad one
ProofUnits ==
    {Unit(c, r, s, v, g) : c \in {G, F}, r \in Rounds, s \in Sessions,
                           v \in 0 .. MaxVariant, g \in {G, F, BadSig}}

uA == Unit(F, 0, session_id, 0, F)
uB == Unit(F, 0, session_id, 1, F)
uR1 == Unit(F, 1, session_id, 0, F)
uOther == Unit(G, 0, session_id, 0, G)
uSess == Unit(F, 1, session_id + 1, 0, F)
uBad == Unit(F, 1, session_id, 0, BadSig)

GoodProof == <<uA, uB>>

\* self proof, different rounds, different creators, other session, bad signature
BadProofs ==
    { <<uA, uA>>, <<uA, uR1>>, <<uA, uOther>>,
      <<uSess, Unit(F, 1, session_id + 1, 1, F)>>, <<uA, Unit(F, 0, session_id, 1, BadSig)>> }

\* commitments: valid ones, and one per way of being invalid
LegitLists ==
    { << >>, <<uA>>, <<uA, uR1>>, <<uA, uB>>, <<uOther>>, <<uSess>>, <<uBad>>, <<uR1, uSess>> }

HandlerContents ==
    {Alert(1, GoodProof, l) : l \in LegitLists} \cup {Alert(1, p, << >>) : p \in BadProofs}

\* alerts as they arrive from the network: correctly signed by the sender, or not
HandlerNetAlerts ==
    {SignedAlert(c, 1) : c \in HandlerContents}
        \cup {SignedAlert(Alert(1, GoodProof, l), BadSig) : l \in {<< >>, <<uA>>}}
        \cup {SignedAlert(Alert(2, GoodProof, << >>), 2)}

\* alerts the local consensus raises
HandlerOwnAlerts == {Alert(Own, GoodProof, l) : l \in {<< >>, <<uA>>}}

HandlerHashes == {Hash(c) : c \in HandlerContents \cup HandlerOwnAlerts}

QuorumSigners == 1 .. quorum
SubQuorumSigners == 1 .. (quorum - 1)

\* hashes peers ask about: two alerts of one pair, an own alert, an alert never accepted
HandlerPeerHashes ==
    {Hash(c) : c \in {Alert(1, GoodProof, << >>), Alert(1, GoodProof, <<uA>>),
                      Alert(Own, GoodProof, << >>), Alert(1, <<uA, uA>>, << >>)}}

HandlerRmcMessages ==
    UNION {{SignedHash(h, 1), MultisignedHash(h, SubQuorumSigners), MultisignedHash(h, QuorumSigners)}
              : h \in HandlerPeerHashes}

NoCall == [op |-> "new", arg |-> << >>, ret |-> None, pre |-> NewAlerter(Own, session_id)]

(***************************************************************************)
(* SpecForkProof: who_is_forking and on_network_alert on every fork proof  *)
(***************************************************************************)

InitForkProof ==
    /\ proof \in ProofUnits \X ProofUnits
    /\ alerter \in {NewAlerter(Own, s) : s \in Sessions}
    /\ who = NotCalled
    /\ accepted = NotCalled
    /\ call = NoCall
    /\ environment = "alerted"
    /\ InitLoop
    /\ InitStorage

\* who_is_forking(&proof)
CheckProof ==
    /\ who = NotCalled
    /\ who' = who_is_forking(alerter, proof)
    /\ UNCHANGED <<alerter, call, proof, accepted, loopVars>>

\* on_network_alert on an alert by node 1 that carries the proof
ReceiveProofAlert ==
    /\ accepted = NotCalled
    /\ \E g \in {1, BadSig} :
          LET r == on_network_alert(alerter, SignedAlert(Alert(1, proof, << >>), g))
          IN  /\ alerter' = r.alerter
              /\ accepted' = r.response
    /\ UNCHANGED <<call, proof, who, loopVars>>

NextForkProof == CheckProof \/ ReceiveProofAlert

SpecForkProof == InitForkProof /\ [][NextForkProof]_vars

(***************************************************************************)
(* SpecHandler: the handler's operations in any order                      *)
(***************************************************************************)

InitHandler ==
    /\ alerter = NewAlerter(Own, session_id)
    /\ call = NoCall
    /\ proof = GoodProof
    /\ who = NotCalled
    /\ accepted = NotCalled
    /\ environment = "alerted"
    /\ InitLoop
    /\ InitStorage

Called(op, arg, r) ==
    /\ call' = [op |-> op, arg |-> arg, ret |-> r.response, pre |-> alerter]
    /\ alerter' = r.alerter
    /\ UNCHANGED <<proof, who, accepted, loopVars>>

HasRoom == Cardinality(DOMAIN alerter.known_alerts) < MaxKnownAlerts

HandlerOwnAlert ==
    \E alert \in HandlerOwnAlerts :
        /\ HasRoom
        /\ Called("on_own_alert", alert, on_own_alert(alerter, alert))

HandlerNetworkAlert ==
    \E sa \in HandlerNetAlerts :
        /\ HasRoom
        /\ Called("on_network_alert", sa, on_network_alert(alerter, sa))

HandlerRmcMessage ==
    \E sender \in {1, 2}, m \in HandlerRmcMessages :
        Called("on_rmc_message", <<sender, m>>,
               [alerter |-> alerter, response |-> on_rmc_message(alerter, sender, m)])

HandlerAlertRequest ==
    \E node \in {1, 2}, h \in HandlerPeerHashes :
        Called("on_alert_request", <<node, h>>,
               [alerter |-> alerter, response |-> on_alert_request(alerter, node, h)])

HandlerAlertConfirmed ==
    \E h \in HandlerHashes :
        Called("alert_confirmed", h, alert_confirmed(alerter, h))

NextHandler ==
    \/ HandlerOwnAlert
    \/ HandlerNetworkAlert
    \/ HandlerRmcMessage
    \/ HandlerAlertRequest
    \/ HandlerAlertConfirmed

SpecHandler == InitHandler /\ [][NextHandler]_vars

(***************************************************************************)
(* Claims about the handler                                                *)
(***************************************************************************)

DistinctRounds(l) == \A i, j \in 1 .. Len(l) : i # j => l[i].round # l[j].round

ConfirmedUnits == call.op = "alert_confirmed" /\ call.ret # None

ConfirmedForker == alerter.known_alerts[call.arg].signable.proof[1].creator

ValidFork(a, p) ==
    /\ check_unit(p[1]) /\ check_unit(p[2])
    /\ p[1].session_id = a.session_id /\ p[2].session_id = a.session_id
    /\ FullUnit(p[1]) # FullUnit(p[2])
    /\ p[1].creator = p[2].creator
    /\ p[1].round = p[2].round

\* C9: who_is_forking(proof) is Some(creator) exactly when both units are validly
\* signed, both in the handler's session, not identical, by the same creator and of
\* the same round, and None otherwise; and an alert that on_network_alert accepts
\* carries a proof with who_is_forking(proof) = Some(creator of the proof).
C9_WhoIsForkingExactlyValidForks ==
    /\ who # NotCalled =>
          who = IF ValidFork(alerter, proof) THEN Some(proof[1].creator) ELSE None
    /\ (accepted # NotCalled /\ accepted # None) =>
          /\ ValidFork(alerter, proof)
          /\ who_is_forking(alerter, proof) = Some(proof[1].creator)

\* a valid proof was examined and its alert accepted
C9_Witness == who = Some(F) /\ accepted # NotCalled /\ accepted # None

Rejected(a, sa) == ~check_alert(sa) \/ who_is_forking(a, sa.signable.proof) = None

\* C10: when on_network_alert rejects an alert (bad signature of the sender, or a
\* malformed fork proof) it returns None and leaves known_forkers, known_alerts and
\* known_rmcs as they were before the call.
C10_RejectedAlertChangesNothing ==
    (call.op = "on_network_alert" /\ Rejected(call.pre, call.arg)) =>
        /\ call.ret = None
        /\ alerter.known_forkers = call.pre.known_forkers
        /\ alerter.known_alerts = call.pre.known_alerts
        /\ alerter.known_rmcs = call.pre.known_rmcs

\* a self proof was rejected by a handler that already holds alerts
C10_Witness ==
    /\ call.op = "on_network_alert"
    /\ call.arg.signable.proof = <<uA, uA>>
    /\ DOMAIN call.pre.known_alerts # {}

(***************************************************************************)
(* Inputs of the event loops                                               *)
(***************************************************************************)

MaxRmcQueue == 1

\* two alerts of node 1 about F that differ in their commitment, and the local alert
NA1 == Alert(1, GoodProof, << >>)
NA2 == Alert(1, GoodProof, <<uA>>)
OA == Alert(Own, GoodProof, << >>)
\* an alert of node 1 whose commitment holds a unit of another creator
NA3 == Alert(1, GoodProof, <<uOther>>)
\* "alerting": consensus raises an alert here and the peers sign it;
\* "alerted": a peer's alerts arrive with complete multisignatures;
\* "both": an alert is raised here while a peer's alert arrives;
\* "committed": as "both", the peer's alert carrying an invalid commitment
Environments == {"alerting", "alerted", "both"}

LoopNetAlerts ==
    CASE environment = "alerting" -> {SignedAlert(NA1, BadSig)}
      [] environment = "alerted" ->
             {SignedAlert(NA1, 1), SignedAlert(NA2, 1), SignedAlert(NA1, BadSig)}
      [] environment = "both" -> {SignedAlert(NA1, 1)}
      [] environment = "committed" -> {SignedAlert(NA3, 1)}

LoopOwnAlerts == IF environment = "alerted" THEN {} ELSE {OA}

LoopHashes ==
    CASE environment = "alerting" -> {Hash(OA)}
      [] environment = "alerted" -> {Hash(NA1)}
      [] environment = "both" -> {}
      [] environment = "committed" -> {Hash(NA3)}

LoopRmcMessages ==
    CASE environment = "alerting" -> {SignedHash(Hash(OA), 1), SignedHash(Hash(OA), 2)}
      [] environment = "alerted" ->
             {MultisignedHash(Hash(NA1), QuorumSigners), MultisignedHash(Hash(NA2), QuorumSigners),
              MultisignedHash(Hash(NA2), SubQuorumSigners)}
      [] environment = "both" ->
             {MultisignedHash(Hash(OA), QuorumSigners), MultisignedHash(Hash(NA1), QuorumSigners)}
      [] environment = "committed" -> {MultisignedHash(Hash(NA3), QuorumSigners)}

\* the peer an RMC message comes from: a partial signature from its signer, the
\* multisignatures on NA2 from peer 2 and the other ones from peer 1
RmcSender(m) ==
    IF m.kind = "SignedHash" THEN CHOOSE g \in m.signers : TRUE
    ELSE IF m.hash = Hash(NA2) THEN 2 ELSE 1

\* the peers that ask for alerts
Requesters == {1, 2}

OwnAlertData(alert) == [tag |-> "OwnAlert", alert |-> alert]
NetworkAlertData(alert) == [tag |-> "NetworkAlert", alert |-> alert]
MultisignedData(h) == [tag |-> "MultisignedHash", hash |-> h]

\* BackupItem::AlertData
AlertDataItem(data) == [tag |-> "AlertData", data |-> data]

\* what remains of a record whose write or flush failed
TornItem == [tag |-> "Torn"]

\* consensus raises one alert per forker
NotYetRaised(alert) == <<Own, forker_of(alert)>> \notin DOMAIN alerter.known_rmcs

(***************************************************************************)
(* SpecService: Service::run (alerts/service.rs) with the backup saver     *)
(***************************************************************************)

\* data_for_backup.unbounded_send(data): fails, and is only logged, once the saver is gone
SentToBackup(data) == IF saver = "running" THEN Append(data_for_backup, data) ELSE data_for_backup

\* handle_message_from_network, ForkAlert
ServiceForkAlert(sa) ==
    LET r == on_network_alert(alerter, sa)
    IN  /\ service = "running"
        /\ alerter' = r.alerter
        /\ IF r.response # None
           THEN /\ network_alert_responses' =
                       Put(network_alert_responses, Hash(sa.signable), r.response.val)
                /\ data_for_backup' = SentToBackup(NetworkAlertData(sa.signable))
           ELSE UNCHANGED <<network_alert_responses, data_for_backup>>
        /\ UNCHANGED <<inputVars, own_alert_responses, multisigned_notifications,
                       responses_from_backup, backup, saver, service, outVars, rmcVars>>

\* handle_message_from_network, RmcHash
ServiceRmcMessage(sender, m) ==
    LET r == on_rmc_message(alerter, sender, m)
    IN  /\ service = "running"
        /\ Len(messages_for_rmc) < MaxRmcQueue
        /\ IF r = None THEN UNCHANGED <<messages_for_rmc, messages_for_network>>
           ELSE IF r.val.tag = "RmcMessage"
           THEN /\ messages_for_rmc' = Append(messages_for_rmc, RmcHash(r.val.message))
                /\ UNCHANGED messages_for_network
           ELSE /\ messages_for_network' = messages_for_network \cup
                       {[message |-> AlertRequest(alerter.index, r.val.hash),
                         recipient |-> r.val.recipient]}
                /\ UNCHANGED messages_for_rmc
        /\ UNCHANGED <<alerter, inputVars, pendingVars, backupVars, service,
                       notifications_for_units, rmc, confirmations>>

\* handle_message_from_network, AlertRequest
ServiceAlertRequest(node, h) ==
    LET r == on_alert_request(alerter, node, h)
    IN  /\ service = "running"
        /\ IF r = None THEN UNCHANGED messages_for_network
           ELSE messages_for_network' = messages_for_network \cup
                    {[message |-> ForkAlert(r.val.alert), recipient |-> r.val.recipient]}
        /\ UNCHANGED <<alerter, inputVars, pendingVars, backupVars, service,
                       notifications_for_units, rmcVars>>

\* handle_alert_from_runway
ServiceAlertFromRunway(alert) ==
    LET r == on_own_alert(alerter, alert)
    IN  /\ service = "running"
        /\ NotYetRaised(alert)
        /\ alerter' = r.alerter
        /\ own_alert_responses' = Put(own_alert_responses, Hash(alert), r.response)
        /\ data_for_backup' = SentToBackup(OwnAlertData(alert))
        /\ UNCHANGED <<inputVars, network_alert_responses, multisigned_notifications,
                       responses_from_backup, backup, saver, service, outVars, rmcVars>>

\* handle_multisigned
HandleMultisigned(h) ==
    LET r == alert_confirmed(alerter, h)
    IN  /\ alerter' = r.alerter
        /\ confirmations' = Append(confirmations, h)
        /\ IF r.response # None
           THEN /\ multisigned_notifications' = Put(multisigned_notifications, h, r.response.val)
                /\ data_for_backup' = SentToBackup(MultisignedData(h))
           ELSE UNCHANGED <<multisigned_notifications, data_for_backup>>

\* rmc_io.receive() yields NewMultisigned
ServiceNewMultisigned ==
    \E h \in rmc.unreported :
        /\ service = "running"
        /\ rmc' = [rmc EXCEPT !.unreported = @ \ {h}]
        /\ HandleMultisigned(h)
        /\ UNCHANGED <<inputVars, own_alert_responses, network_alert_responses,
                       responses_from_backup, backup, saver, service, outVars, messages_for_rmc>>

\* rmc_service.run() returns a multisigned hash
ServiceRmcReturns ==
    \E h \in rmc.unreported :
        /\ service = "running"
        /\ rmc' = [rmc EXCEPT !.unreported = @ \ {h}]
        /\ HandleMultisigned(h)
        /\ UNCHANGED <<inputVars, own_alert_responses, network_alert_responses,
                       responses_from_backup, backup, saver, service, outVars, messages_for_rmc>>

\* rmc_io.receive() yields RmcHash: the engine retransmits its signature of a hash in progress
ServiceRmcHash ==
    \E h \in rmc.started \ rmc.multisigned :
        /\ service = "running"
        /\ messages_for_network' = messages_for_network \cup
               {[message |-> RmcMessage(Own, SignedHash(h, Own)), recipient |-> Everyone]}
        /\ UNCHANGED <<alerter, inputVars, pendingVars, backupVars, service,
                       notifications_for_units, rmcVars>>

ServiceDataFromBackupKeepingEntry ==
    /\ service = "running"
    /\ responses_from_backup # << >>
    /\ responses_from_backup' = Tail(responses_from_backup)
    /\ LET data == Head(responses_from_backup)
       IN  CASE data.tag = "OwnAlert" ->
                  LET h == Hash(data.alert)
                  IN  IF h \in DOMAIN own_alert_responses
                      THEN /\ own_alert_responses' = Remove(own_alert_responses, h)
                           /\ messages_for_network' = messages_for_network \cup
                                  {[message |-> own_alert_responses[h].message,
                                    recipient |-> own_alert_responses[h].recipient]}
                           /\ messages_for_rmc' =
                                  Append(messages_for_rmc, StartRmc(own_alert_responses[h].hash))
                           /\ UNCHANGED <<network_alert_responses, multisigned_notifications,
                                          notifications_for_units>>
                      ELSE UNCHANGED <<pendingVars, outVars, messages_for_rmc>>
             [] data.tag = "NetworkAlert" ->
                  LET h == Hash(data.alert)
                  IN  IF h \in DOMAIN network_alert_responses
                      THEN /\ network_alert_responses' = Remove(network_alert_responses, h)
                           /\ messages_for_rmc' =
                                  Append(messages_for_rmc, StartRmc(network_alert_responses[h].hash))
                           /\ notifications_for_units' =
                                  IF network_alert_responses[h].notification # None
                                  THEN Append(notifications_for_units,
                                              network_alert_responses[h].notification.val)
                                  ELSE notifications_for_units
                           /\ UNCHANGED <<own_alert_responses, multisigned_notifications,
                                          messages_for_network>>
                      ELSE UNCHANGED <<pendingVars, outVars, messages_for_rmc>>
             [] data.tag = "MultisignedHash" ->
                  IF data.hash \in DOMAIN multisigned_notifications
                  THEN /\ UNCHANGED multisigned_notifications
                       /\ notifications_for_units' =
                              Append(notifications_for_units, multisigned_notifications[data.hash])
                       /\ UNCHANGED <<own_alert_responses, network_alert_responses,
                                      messages_for_network, messages_for_rmc>>
                  ELSE UNCHANGED <<pendingVars, outVars, messages_for_rmc>>
    /\ UNCHANGED <<alerter, inputVars, data_for_backup, backup, saver, service,
                   rmc, confirmations>>

\* handle_data_from_backup
ServiceDataFromBackup ==
    /\ service = "running"
    /\ responses_from_backup # << >>
    /\ responses_from_backup' = Tail(responses_from_backup)
    /\ LET data == Head(responses_from_backup)
       IN  CASE data.tag = "OwnAlert" ->
                  LET h == Hash(data.alert)
                  IN  IF h \in DOMAIN own_alert_responses
                      THEN /\ own_alert_responses' = Remove(own_alert_responses, h)
                           /\ messages_for_network' = messages_for_network \cup
                                  {[message |-> own_alert_responses[h].message,
                                    recipient |-> own_alert_responses[h].recipient]}
                           /\ messages_for_rmc' =
                                  Append(messages_for_rmc, StartRmc(own_alert_responses[h].hash))
                           /\ UNCHANGED <<network_alert_responses, multisigned_notifications,
                                          notifications_for_units>>
                      ELSE UNCHANGED <<pendingVars, outVars, messages_for_rmc>>
             [] data.tag = "NetworkAlert" ->
                  LET h == Hash(data.alert)
                  IN  IF h \in DOMAIN network_alert_responses
                      THEN /\ network_alert_responses' = Remove(network_alert_responses, h)
                           /\ messages_for_rmc' =
                                  Append(messages_for_rmc, StartRmc(network_alert_responses[h].hash))
                           /\ notifications_for_units' =
                                  IF network_alert_responses[h].notification # None
                                  THEN Append(notifications_for_units,
                                              network_alert_responses[h].notification.val)
                                  ELSE notifications_for_units
                           /\ UNCHANGED <<own_alert_responses, multisigned_notifications,
                                          messages_for_network>>
                      ELSE UNCHANGED <<pendingVars, outVars, messages_for_rmc>>
             [] data.tag = "MultisignedHash" ->
                  IF data.hash \in DOMAIN multisigned_notifications
                  THEN /\ multisigned_notifications' = Remove(multisigned_notifications, data.hash)
                       /\ notifications_for_units' =
                              Append(notifications_for_units, multisigned_notifications[data.hash])
                       /\ UNCHANGED <<own_alert_responses, network_alert_responses,
                                      messages_for_network, messages_for_rmc>>
                  ELSE UNCHANGED <<pendingVars, outVars, messages_for_rmc>>
    /\ UNCHANGED <<alerter, inputVars, data_for_backup, backup, saver, service,
                   rmc, confirmations>>

\* the exit signal: exiting is set and the loop breaks
ServiceExit ==
    /\ service = "running"
    /\ service' = "stopped"
    /\ UNCHANGED <<alerter, inputVars, pendingVars, backupVars, outVars, rmcVars>>

\* responses_from_backup.next() yields None: the saver has returned and its responses are
\* all taken; the loop breaks
ServiceBackupClosed ==
    /\ service = "running"
    /\ saver = "stopped"
    /\ responses_from_backup = << >>
    /\ service' = "stopped"
    /\ UNCHANGED <<alerter, inputVars, pendingVars, backupVars, outVars, rmcVars>>

\* the RMC engine takes one message from its input channel
RmcStep ==
    /\ service = "running"
    /\ messages_for_rmc # << >>
    /\ rmc' = rmc_handle(rmc, Own, Head(messages_for_rmc))
    /\ messages_for_rmc' = Tail(messages_for_rmc)
    /\ UNCHANGED <<alerter, inputVars, pendingVars, backupVars, service, outVars, confirmations>>

save_item_reporting_success(log, item) ==
    {[ok |-> TRUE, backup |-> Append(log, item)],
     [ok |-> TRUE, backup |-> log],
     [ok |-> TRUE, backup |-> Append(log, TornItem)]}

\* BackupSaver::save_item: Ok after write_all and flush; an error of write_all leaves none
\* or a part of the record in the file, an error of flush possibly all of it
save_item(log, item) ==
    {[ok |-> TRUE, backup |-> Append(log, item)],
     [ok |-> FALSE, backup |-> log],
     [ok |-> FALSE, backup |-> Append(log, TornItem)],
     [ok |-> FALSE, backup |-> Append(log, item)]}

SaverSavesAlertDataAndGoesOn ==
    /\ saver = "running"
    /\ data_for_backup # << >>
    /\ data_for_backup' = Tail(data_for_backup)
    /\ \E saved \in save_item(backup, AlertDataItem(Head(data_for_backup))) :
          /\ backup' = saved.backup
          /\ IF saved.ok /\ service = "running"
             THEN responses_from_backup' = Append(responses_from_backup, Head(data_for_backup))
             ELSE UNCHANGED responses_from_backup
    /\ UNCHANGED <<alerter, inputVars, pendingVars, saver, service, outVars, rmcVars>>

SaverSavesAlertDataWithoutResponse ==
    /\ saver = "running"
    /\ data_for_backup # << >>
    /\ data_for_backup' = Tail(data_for_backup)
    /\ \E saved \in save_item(backup, AlertDataItem(Head(data_for_backup))) :
          /\ backup' = saved.backup
          /\ IF saved.ok /\ service = "running"
             THEN UNCHANGED saver
             ELSE saver' = "stopped"
    /\ UNCHANGED <<alerter, inputVars, pendingVars, responses_from_backup, service, outVars,
                   rmcVars>>

SaverSavesAlertDataNewestFirst ==
    /\ saver = "running"
    /\ data_for_backup # << >>
    /\ data_for_backup' = SubSeq(data_for_backup, 1, Len(data_for_backup) - 1)
    /\ \E saved \in save_item(backup, AlertDataItem(data_for_backup[Len(data_for_backup)])) :
          /\ backup' = saved.backup
          /\ IF saved.ok /\ service = "running"
             THEN /\ responses_from_backup' =
                         Append(responses_from_backup, data_for_backup[Len(data_for_backup)])
                  /\ UNCHANGED saver
             ELSE /\ saver' = "stopped"
                  /\ UNCHANGED responses_from_backup
    /\ UNCHANGED <<alerter, inputVars, pendingVars, service, outVars, rmcVars>>

\* BackupSaver::run, data_from_alerter branch: save_item, then the response
SaverSavesAlertData ==
    /\ saver = "running"
    /\ data_for_backup # << >>
    /\ data_for_backup' = Tail(data_for_backup)
    /\ \E saved \in save_item(backup, AlertDataItem(Head(data_for_backup))) :
          /\ backup' = saved.backup
          /\ IF saved.ok /\ service = "running"
             THEN /\ responses_from_backup' =
                         Append(responses_from_backup, Head(data_for_backup))
                  /\ UNCHANGED saver
             ELSE /\ saver' = "stopped"
                  /\ UNCHANGED responses_from_backup
    /\ UNCHANGED <<alerter, inputVars, pendingVars, service, outVars, rmcVars>>

\* BackupSaver::run: the exit signal, or its input channel found closed
SaverStops ==
    /\ saver = "running"
    /\ saver' = "stopped"
    /\ UNCHANGED <<alerter, inputVars, pendingVars, data_for_backup, responses_from_backup,
                   backup, service, outVars, rmcVars>>

NextService ==
    \/ \E sa \in LoopNetAlerts : ServiceForkAlert(sa)
    \/ \E m \in LoopRmcMessages : ServiceRmcMessage(RmcSender(m), m)
    \/ \E node \in Requesters, h \in LoopHashes : ServiceAlertRequest(node, h)
    \/ \E alert \in LoopOwnAlerts : ServiceAlertFromRunway(alert)
    \/ ServiceNewMultisigned
    \/ ServiceRmcReturns
    \/ ServiceRmcHash
    \/ ServiceDataFromBackup
    \/ ServiceExit
    \/ ServiceBackupClosed
    \/ RmcStep
    \/ SaverSavesAlertData
    \/ SaverStops

InitService ==
    /\ alerter = NewAlerter(Own, session_id)
    /\ call = NoCall
    /\ proof = GoodProof
    /\ who = NotCalled
    /\ accepted = NotCalled
    /\ environment \in Environments
    /\ InitLoop
    /\ InitStorage

SpecService == InitService /\ [][NextService]_vars

(***************************************************************************)
(* SpecRun: the event loop alerts::run (alerts/mod.rs), which owns the     *)
(* handler and the RMC engine and has no channel to the backup saver       *)
(***************************************************************************)

\* messages_from_network, ForkAlert: on_message answers ForkResponse
RunForkAlert(sa) ==
    LET r == on_network_alert(alerter, sa)
    IN  /\ service = "running"
        /\ alerter' = r.alerter
        /\ IF r.response # None
           THEN /\ rmc' = rmc_start(rmc, r.response.val.hash, Own)
                /\ notifications_for_units' =
                       IF r.response.val.notification # None
                       THEN Append(notifications_for_units, r.response.val.notification.val)
                       ELSE notifications_for_units
           ELSE UNCHANGED <<rmc, notifications_for_units>>
        /\ UNCHANGED <<inputVars, pendingVars, backupVars, service, messages_for_network,
                       messages_for_rmc, confirmations>>

\* messages_from_network, RmcMessage: on_message answers RmcMessage, AlertRequest or nothing
RunRmcMessage(sender, m) ==
    LET r == on_rmc_message(alerter, sender, m)
    IN  /\ service = "running"
        /\ Len(messages_for_rmc) < MaxRmcQueue
        /\ IF r = None THEN UNCHANGED <<messages_for_rmc, messages_for_network>>
           ELSE IF r.val.tag = "RmcMessage"
           THEN /\ messages_for_rmc' = Append(messages_for_rmc, RmcHash(r.val.message))
                /\ UNCHANGED messages_for_network
           ELSE /\ messages_for_network' = messages_for_network \cup
                       {[message |-> AlertRequest(alerter.index, r.val.hash),
                         recipient |-> r.val.recipient]}
                /\ UNCHANGED messages_for_rmc
        /\ UNCHANGED <<alerter, inputVars, pendingVars, backupVars, service,
                       notifications_for_units, rmc, confirmations>>

\* messages_from_network, AlertRequest: on_message answers ForkAlert or nothing
RunAlertRequest(node, h) ==
    LET r == on_alert_request(alerter, node, h)
    IN  /\ service = "running"
        /\ IF r = None THEN UNCHANGED messages_for_network
           ELSE messages_for_network' = messages_for_network \cup
                    {[message |-> ForkAlert(r.val.alert), recipient |-> r.val.recipient]}
        /\ UNCHANGED <<alerter, inputVars, pendingVars, backupVars, service,
                       notifications_for_units, rmcVars>>

\* alerts_from_units
RunOwnAlert(alert) ==
    LET r == on_own_alert(alerter, alert)
    IN  /\ service = "running"
        /\ NotYetRaised(alert)
        /\ alerter' = r.alerter
        /\ messages_for_network' = messages_for_network \cup
               {[message |-> r.response.message, recipient |-> r.response.recipient]}
        /\ rmc' = rmc_start(rmc, r.response.hash, Own)
        /\ UNCHANGED <<inputVars, pendingVars, backupVars, service, notifications_for_units,
                       messages_for_rmc, confirmations>>

\* messages_from_rmc: rmc_message_to_network
RunRmcToNetwork ==
    \E h \in rmc.started \ rmc.multisigned :
        /\ service = "running"
        /\ messages_for_network' = messages_for_network \cup
               {[message |-> RmcMessage(Own, SignedHash(h, Own)), recipient |-> Everyone]}
        /\ UNCHANGED <<alerter, inputVars, pendingVars, backupVars, service,
                       notifications_for_units, rmcVars>>

\* rmc.next_multisigned_hash() taking a message from messages_from_us
RunRmcStep ==
    /\ service = "running"
    /\ messages_for_rmc # << >>
    /\ rmc' = rmc_handle(rmc, Own, Head(messages_for_rmc))
    /\ messages_for_rmc' = Tail(messages_for_rmc)
    /\ UNCHANGED <<alerter, inputVars, pendingVars, backupVars, service, outVars, confirmations>>

\* rmc.next_multisigned_hash() returns
RunMultisigned ==
    \E h \in rmc.unreported :
        LET r == alert_confirmed(alerter, h)
        IN  /\ service = "running"
            /\ rmc' = [rmc EXCEPT !.unreported = @ \ {h}]
            /\ alerter' = r.alerter
            /\ confirmations' = Append(confirmations, h)
            /\ notifications_for_units' =
                   IF r.response # None
                   THEN Append(notifications_for_units, r.response.val)
                   ELSE notifications_for_units
            /\ UNCHANGED <<inputVars, pendingVars, backupVars, service, messages_for_network,
                           messages_for_rmc>>

\* the exit signal
RunExit ==
    /\ service = "running"
    /\ service' = "stopped"
    /\ UNCHANGED <<alerter, inputVars, pendingVars, backupVars, outVars, rmcVars>>

NextRun ==
    \/ \E sa \in LoopNetAlerts : RunForkAlert(sa)
    \/ \E m \in LoopRmcMessages : RunRmcMessage(RmcSender(m), m)
    \/ \E node \in Requesters, h \in LoopHashes : RunAlertRequest(node, h)
    \/ \E alert \in LoopOwnAlerts : RunOwnAlert(alert)
    \/ RunRmcToNetwork
    \/ RunRmcStep
    \/ RunMultisigned
    \/ RunExit

SpecRun == InitService /\ [][NextRun]_vars

(***************************************************************************)
(* Durability before consequences                                          *)
(***************************************************************************)

Range(q) == {q[i] : i \in DOMAIN q}

Recorded(data) == AlertDataItem(data) \in Range(backup)

\* start(h) has been handed to the RMC engine
StartIssued(h) == h \in rmc.started \/ StartRmc(h) \in Range(messages_for_rmc)

KnownHashes == DOMAIN alerter.known_alerts

OwnHashes == {h \in KnownHashes : alerter.known_alerts[h].signable.sender = Own}

PeerHashes == KnownHashes \ OwnHashes

\* C1: an own alert is broadcast (ForkAlert to Everyone) only when the record OwnAlert of
\* that alert is already written and flushed to the backup log
C1_BroadcastOnlyAfterOwnAlertRecorded ==
    \A m \in messages_for_network :
        (m.message.tag = "ForkAlert" /\ m.recipient = Everyone)
            => Recorded(OwnAlertData(m.message.alert.signable))

\* C2: a Units notification reaches consensus only when the record MultisignedHash of the
\* alert carrying these units is written and its acknowledgement has been taken
C2_UnitsOnlyAfterMultisignedRecorded ==
    \A i \in DOMAIN notifications_for_units :
        notifications_for_units[i].tag = "Units" =>
            \E h \in KnownHashes :
                /\ alerter.known_alerts[h].signable.legit_units = notifications_for_units[i].units
                /\ Recorded(MultisignedData(h))
                /\ h \notin DOMAIN multisigned_notifications

\* C3: start(h) for an own alert is issued only when the record OwnAlert of the alert is
\* written and its acknowledgement has been taken
C3_OwnStartOnlyAfterAcknowledgement ==
    \A h \in OwnHashes :
        StartIssued(h) =>
            /\ Recorded(OwnAlertData(alerter.known_alerts[h].signable))
            /\ h \notin DOMAIN own_alert_responses

\* C4: for an accepted network alert neither start(h) is issued nor the Forker notification
\* forwarded until the record NetworkAlert of the alert is written and acknowledged
C4_NetworkAlertConsequencesOnlyAfterAcknowledgement ==
    /\ \A h \in PeerHashes :
           StartIssued(h) =>
               /\ Recorded(NetworkAlertData(alerter.known_alerts[h].signable))
               /\ h \notin DOMAIN network_alert_responses
    /\ \A i \in DOMAIN notifications_for_units :
           notifications_for_units[i].tag = "Forker" =>
               \E h \in PeerHashes :
                   /\ alerter.known_alerts[h].signable.proof = notifications_for_units[i].proof
                   /\ Recorded(NetworkAlertData(alerter.known_alerts[h].signable))
                   /\ h \notin DOMAIN network_alert_responses

(***************************************************************************)
(* Completions seen by the handler of one node                             *)
(***************************************************************************)

\* the (sender, forker) pair of the alert with hash h
pair_of(h) == <<h[2], h[3][1].creator>>

BA1 == Alert(Byzantine, GoodProof, << >>)
BA2 == Alert(Byzantine, GoodProof, <<uA>>)

\* the alert an honest member raises about the fork
HonestAlert(n) == Alert(n, GoodProof, << >>)

\* "alerted": the Byzantine member sends its two alerts; otherwise consensus at member Own
\* detects the fork and raises the alert, and the Byzantine member forges a copy
Raisers == IF environment = "alerted" THEN {} ELSE {Own}

NetAlerts == IF environment = "alerted" THEN {BA1, BA2} ELSE {HonestAlert(Own)}
NetHashes == {Hash(alert) : alert \in NetAlerts}

\* own alerts that honest members have broadcast
Broadcast ==
    UNION {{nodes[n].alerter.known_alerts[h] :
                h \in {g \in DOMAIN nodes[n].alerter.known_alerts : g[2] = n}} : n \in Honest}

\* ForkAlert messages deliverable to any member
AlertsInFlight ==
    Broadcast \cup {SignedAlert(alert, Byzantine) : alert \in NetAlerts}

\* the members whose signature over h exists
Signers(h) == {Byzantine} \cup {n \in Honest : h \in nodes[n].rmc.started}

\* RMC messages deliverable to any member: partial signatures of the members that signed,
\* and the multisignature assembled from them, complete or not
RmcInFlight ==
    UNION {{SignedHash(h, g) : g \in Signers(h)} \cup {MultisignedHash(h, Signers(h))} :
           h \in NetHashes}

NodeState(a, r, c) == [alerter |-> a, rmc |-> r, confirmed |-> c]

localVars ==
    <<alerter, call, proof, who, accepted, environment, pendingVars, backupVars, service,
      outVars, rmcVars, storageVars>>

\* run at member n, alerts_from_units
NetOwnAlert(n, alert) ==
    LET r == on_own_alert(nodes[n].alerter, alert)
    IN  /\ <<n, forker_of(alert)>> \notin DOMAIN nodes[n].alerter.known_rmcs
        /\ nodes' = [nodes EXCEPT ![n] =
               NodeState(r.alerter, rmc_start(@.rmc, r.response.hash, n), @.confirmed)]
        /\ UNCHANGED localVars

\* run at member n, messages_from_network: ForkAlert
NetForkAlert(n, sa) ==
    LET r == on_network_alert(nodes[n].alerter, sa)
    IN  /\ sa \in AlertsInFlight
        /\ nodes' = [nodes EXCEPT ![n] =
               NodeState(r.alerter,
                         IF r.response # None THEN rmc_start(@.rmc, r.response.val.hash, n)
                         ELSE @.rmc,
                         @.confirmed)]
        /\ UNCHANGED localVars

\* run at member n, messages_from_network: RmcMessage, handed to the engine when forwarded
NetRmcMessage(n, sender, m) ==
    LET r == on_rmc_message(nodes[n].alerter, sender, m)
    IN  /\ m \in RmcInFlight
        /\ nodes' = [nodes EXCEPT ![n] =
               NodeState(@.alerter,
                         IF r # None /\ r.val.tag = "RmcMessage" THEN rmc_receive(@.rmc, m)
                         ELSE @.rmc,
                         @.confirmed)]
        /\ UNCHANGED localVars

\* run at member n, rmc.next_multisigned_hash() returns
NetMultisigned(n) ==
    \E h \in nodes[n].rmc.unreported :
        LET r == alert_confirmed(nodes[n].alerter, h)
        IN  /\ nodes' = [nodes EXCEPT ![n] =
                   NodeState(r.alerter, [@.rmc EXCEPT !.unreported = @ \ {h}],
                             Append(@.confirmed, h))]
            /\ UNCHANGED localVars

\* a partial signature of an honest member reaches member n
NetHonestSignature(n) ==
    \E g \in Honest \ {n}, h \in NetHashes : NetRmcMessage(n, g, SignedHash(h, g))

NextNet ==
    \/ \E n \in Raisers : NetOwnAlert(n, HonestAlert(n))
    \/ \E n \in Honest, sa \in AlertsInFlight : NetForkAlert(n, sa)
    \/ \E n \in Honest : NetHonestSignature(n)
    \/ \E n \in Honest, m \in RmcInFlight : NetRmcMessage(n, Byzantine, m)
    \/ \E n \in Honest : NetMultisigned(n)

InitNet == InitService /\ environment # "both"

SpecNet == InitNet /\ [][NextNet]_vars

\* every honest member keeps taking its turns and the network keeps delivering what honest
\* members retransmit; the alert is the one raised by an honest member
InitFairNet == InitService /\ environment = "alerting"

FairSpecNet ==
    /\ InitFairNet
    /\ [][NextNet]_vars
    /\ \A n \in Honest : WF_vars(NetHonestSignature(n)) /\ WF_vars(NetMultisigned(n))

(***************************************************************************)
(* Agreement and liveness of the multicast among the members               *)
(***************************************************************************)

AllHashes == {Hash(BA1), Hash(BA2), Hash(HonestAlert(Own))}

HonestSigners(h) == {n \in Honest : h \in nodes[n].rmc.started}

\* a complete multisignature on h can be assembled by some member
Completable(h) == keychain_is_complete(Signers(h))

\* C5: with fewer than a third of the members Byzantine, no two distinct alerts of the same
\* (sender, forker) pair obtain a complete multisignature or are confirmed, at the same or
\* at different honest members
C5_AtMostOneMultisignedAlertPerPair ==
    /\ \A h, g \in AllHashes : (Completable(h) /\ Completable(g) /\ pair_of(h) = pair_of(g)) => h = g
    /\ \A n, m \in Honest :
           /\ \A h \in nodes[n].rmc.multisigned, g \in nodes[m].rmc.multisigned :
                  pair_of(h) = pair_of(g) => h = g
           /\ \A h \in Range(nodes[n].confirmed), g \in Range(nodes[m].confirmed) :
                  pair_of(h) = pair_of(g) => h = g

\* two honest members have confirmed one alert of the Byzantine sender while a third honest
\* member has signed the other
C5_Witness ==
    \E h, g \in {Hash(BA1), Hash(BA2)} :
        /\ h # g
        /\ \E n, m \in Honest : n # m /\ h \in Range(nodes[n].confirmed)
                                      /\ h \in Range(nodes[m].confirmed)
        /\ HonestSigners(g) # {}

alert_id(alert) == <<alert.sender, forker_of(alert)>>

\* C11: on_network_alert on a correctly signed alert with a valid proof, for a pair without
\* RMC-table entry, returns (Forker(proof) if the forker is new and None otherwise,
\* hash(alert)) and registers forker, RMC entry and cached alert; for a pair that has an
\* entry (the same alert again, or another one) it returns None, caches the alert under
\* its hash and leaves the RMC table and the registry as they were.
C11_NetworkAlertAcceptedOncePerPair ==
    (call.op = "on_network_alert" /\ ~Rejected(call.pre, call.arg)) =>
        LET contents == call.arg.signable
            forker == forker_of(contents)
            h == Hash(contents)
        IN  IF alert_id(contents) \notin DOMAIN call.pre.known_rmcs
            THEN /\ call.ret = Some([notification |->
                                        IF forker \in DOMAIN call.pre.known_forkers THEN None
                                        ELSE Some(Forker(contents.proof)),
                                     hash |-> h])
                 /\ forker \in DOMAIN alerter.known_forkers
                 /\ forker \notin DOMAIN call.pre.known_forkers
                        => alerter.known_forkers = Put(call.pre.known_forkers, forker, contents.proof)
                 /\ forker \in DOMAIN call.pre.known_forkers
                        => alerter.known_forkers = call.pre.known_forkers
                 /\ alerter.known_rmcs = Put(call.pre.known_rmcs, alert_id(contents), h)
                 /\ alerter.known_alerts = Put(call.pre.known_alerts, h, call.arg)
            ELSE /\ call.ret = None
                 /\ alerter.known_alerts = Put(call.pre.known_alerts, h, call.arg)
                 /\ alerter.known_rmcs = call.pre.known_rmcs
                 /\ alerter.known_forkers = call.pre.known_forkers

\* a valid alert, not seen before, arrived for a pair whose RMC-table entry is another alert
C11_Witness ==
    /\ call.op = "on_network_alert"
    /\ ~Rejected(call.pre, call.arg)
    /\ call.ret = None
    /\ Hash(call.arg.signable) \notin DOMAIN call.pre.known_alerts
    /\ alerter.known_rmcs[alert_id(call.arg.signable)] # Hash(call.arg.signable)

\* C12: on_own_alert(alert) records the forker with the alert's proof, signs the alert with
\* the node's key, sets the RMC-table entry of (own index, forker) to hash(alert), stores
\* the signed alert under that hash and returns (ForkAlert(signed alert), Everyone,
\* hash(alert)).
C12_OwnAlertRegisteredSignedAndBroadcast ==
    call.op = "on_own_alert" =>
        LET alert == call.arg
            forker == forker_of(alert)
            signed == SignedAlert(alert, call.pre.index)
        IN  /\ check_alert(signed)
            /\ call.ret = [message |-> ForkAlert(signed), recipient |-> Everyone,
                           hash |-> Hash(alert)]
            /\ alerter.known_forkers = Put(call.pre.known_forkers, forker, alert.proof)
            /\ alerter.known_rmcs = Put(call.pre.known_rmcs, <<call.pre.index, forker>>, Hash(alert))
            /\ alerter.known_alerts = Put(call.pre.known_alerts, Hash(alert), signed)
            /\ alerter.index = call.pre.index /\ alerter.session_id = call.pre.session_id

\* an own alert was raised by a handler that had learnt of the forker from a peer's alert
C12_Witness ==
    /\ call.op = "on_own_alert"
    /\ forker_of(call.arg) \in DOMAIN call.pre.known_forkers
    /\ DOMAIN call.pre.known_alerts # {}
    /\ <<Own, forker_of(call.arg)>> \notin DOMAIN call.pre.known_rmcs

\* the RMC message of the last call is for the current RMC-table entry of its alert's pair
CurrentEntry(a, m) ==
    Get(a.known_rmcs, alert_id(a.known_alerts[m.hash].signable)) = Some(m.hash)

\* C13: an RMC message whose hash is cached in known_alerts is forwarded to the RMC engine
\* exactly when the hash is the current RMC-table entry of the alert's pair or the message
\* is a complete multisignature; otherwise it is dropped with no response; the handler's
\* state does not change either way.
C13_KnownHashForwardedIffCurrentOrComplete ==
    (call.op = "on_rmc_message" /\ call.arg[2].hash \in DOMAIN call.pre.known_alerts) =>
        LET m == call.arg[2]
        IN  /\ alerter = call.pre
            /\ call.ret = IF CurrentEntry(call.pre, m)
                             \/ (m.kind = "MultisignedHash" /\ Cardinality(m.signers) >= quorum)
                          THEN Some([tag |-> "RmcMessage", message |-> m])
                          ELSE None

\* a partial signature for a cached alert was dropped after another alert of its pair had
\* taken the RMC-table entry
C13_Witness ==
    /\ call.op = "on_rmc_message"
    /\ call.arg[2].hash \in DOMAIN call.pre.known_alerts
    /\ call.arg[2].kind = "SignedHash"
    /\ ~CurrentEntry(call.pre, call.arg[2])
    /\ call.ret = None

(***************************************************************************)
(* Requests for alerts (SpecService)                                       *)
(***************************************************************************)

\* the messages handed to messages_for_network in this step
NewMessages == messages_for_network' \ messages_for_network

\* C14: an RMC message from node s whose hash is not in known_alerts makes the service send
\* AlertRequest(own index, hash) to node s alone, and hands nothing to the RMC engine:
\* every RMC message handed to the engine is for a cached alert.
C14_UnknownHashRequestedFromSender ==
    [][ /\ \A msg \in NewMessages :
               msg.message.tag = "AlertRequest" =>
                   /\ msg.message.hash \notin DOMAIN alerter.known_alerts
                   /\ msg.message.node = alerter.index
                   /\ msg.recipient # Everyone
                   /\ \E m \in LoopRmcMessages :
                          m.hash = msg.message.hash /\ msg.recipient = Node(RmcSender(m))
                   /\ UNCHANGED <<alerter, messages_for_rmc, rmc>>
        /\ \A i \in DOMAIN messages_for_rmc' :
               messages_for_rmc'[i].tag = "RmcHash" =>
                   messages_for_rmc'[i].message.hash \in DOMAIN alerter.known_alerts
      ]_vars

\* peer 2 was asked for the alert behind its multisignature, peer 1 was not, and the RMC
\* engine has received nothing
C14_Witness ==
    /\ [message |-> AlertRequest(Own, Hash(NA2)), recipient |-> Node(2)] \in messages_for_network
    /\ [message |-> AlertRequest(Own, Hash(NA2)), recipient |-> Node(1)] \notin messages_for_network
    /\ Hash(NA2) \notin DOMAIN alerter.known_alerts
    /\ rmc = NewRmc /\ messages_for_rmc = << >>

\* C15: a request of node n for a hash is answered with the signed alert cached under that
\* hash, addressed to n alone, whoever asks and however often; when nothing is cached under
\* the hash nothing is sent; the handler's state does not change.  The only other ForkAlert
\* the service sends is the broadcast of an own alert on its acknowledgement.
C15_CachedAlertReturnedToRequester ==
    [][ /\ \A node \in Requesters, h \in LoopHashes :
               on_alert_request(alerter, node, h) =
                   IF h \in DOMAIN alerter.known_alerts
                   THEN Some([tag |-> "ForkAlert", alert |-> alerter.known_alerts[h],
                              recipient |-> Node(node)])
                   ELSE None
        /\ \A msg \in NewMessages :
               msg.message.tag = "ForkAlert" =>
                   LET h == Hash(msg.message.alert.signable)
                   IN  /\ h \in DOMAIN alerter.known_alerts
                       /\ msg.message.alert = alerter.known_alerts[h]
                       /\ \/ msg.recipient \in {Node(n) : n \in Requesters} /\ alerter' = alerter
                          \/ msg.recipient = Everyone /\ h \in DOMAIN own_alert_responses
      ]_vars

\* both requesters have been sent the cached alert of peer 1, or both the node's own alert
C15_Witness ==
    \E sa \in {SignedAlert(NA1, 1), SignedAlert(OA, Own)} :
        \A n \in Requesters :
            [message |-> ForkAlert(sa), recipient |-> Node(n)] \in messages_for_network

(***************************************************************************)
(* The backup log and its loader (runway/backup.rs)                        *)
(***************************************************************************)

\* Round is an unsigned integer of fixed width, 16 bits in the source; arithmetic on it
\* wraps, as in a build without overflow checks
RoundBits == 2
RoundModulus == 2 ^ RoundBits
RoundMax == RoundModulus - 1

round_add(r, k) == (r + k) % RoundModulus
round_sub(r, k) == (r + RoundModulus - k) % RoundModulus

\* a unit as the loader sees it: coordinates, session and the control hash's parents_mask
LogUnit(c, r, s, parents) == [creator |-> c, round |-> r, session_id |-> s, parents_mask |-> parents]

\* BackupItem::Unit
UnitItem(u) == [tag |-> "Unit", unit |-> u]

\* FullUnit::coord
coord(u) == <<u.round, u.creator>>

\* the alerts that alert data in a log can carry
LogAlerts == <<OA, NA1>>

RECURSIVE mask_code(_, _)
\* encoding of a parents_mask: one bit per member
mask_code(parents, c) ==
    IF c = n_members THEN 0
    ELSE (IF c \in parents THEN 2 ^ c ELSE 0) + mask_code(parents, c + 1)

mask_of(k) == {c \in Nodes : (k \div (2 ^ c)) % 2 = 1}

alert_code(alert) == (CHOOSE i \in DOMAIN LogAlerts : LogAlerts[i] = alert) - 1

\* Encode for BackupItem: the variant index, then the fields in order
encode(item) ==
    IF item.tag = "Unit"
    THEN <<0, item.unit.creator, item.unit.round, item.unit.session_id,
           mask_code(item.unit.parents_mask, 0)>>
    ELSE CASE item.data.tag = "OwnAlert" -> <<1, 0, alert_code(item.data.alert)>>
           [] item.data.tag = "NetworkAlert" -> <<1, 1, alert_code(item.data.alert)>>
           [] item.data.tag = "MultisignedHash" ->
                  <<1, 2, (CHOOSE i \in DOMAIN LogAlerts : Hash(LogAlerts[i]) = item.data.hash) - 1>>

\* Decode for AlertData
decode_alert_data(kind, code) ==
    IF code + 1 \notin DOMAIN LogAlerts THEN None
    ELSE CASE kind = 0 -> Some(OwnAlertData(LogAlerts[code + 1]))
           [] kind = 1 -> Some(NetworkAlertData(LogAlerts[code + 1]))
           [] kind = 2 -> Some(MultisignedData(Hash(LogAlerts[code + 1])))
           [] OTHER -> None

\* Decode for BackupItem: the item and the rest of the input, or an error
decode(input) ==
    IF input[1] = 0
    THEN IF Len(input) < 5 THEN None
         ELSE Some([item |-> UnitItem(LogUnit(input[2], input[3] % RoundModulus, input[4],
                                              mask_of(input[5]))),
                    rest |-> SubSeq(input, 6, Len(input))])
    ELSE IF input[1] = 1
    THEN IF Len(input) < 3 \/ decode_alert_data(input[2], input[3]) = None THEN None
         ELSE Some([item |-> AlertDataItem(decode_alert_data(input[2], input[3]).val),
                    rest |-> SubSeq(input, 4, Len(input))])
    ELSE None

RECURSIVE load(_)
\* BackupLoader::load: every item of the input, or the first decoding error
load(input) ==
    IF input = << >> THEN Some(<< >>)
    ELSE LET first == decode(input)
         IN  IF first = None THEN None
             ELSE LET more == load(first.val.rest)
                  IN  IF more = None THEN None ELSE Some(<<first.val.item>> \o more.val)

RECURSIVE units_of(_)
\* partition_map, left: the units in file order
units_of(items) ==
    IF items = << >> THEN << >>
    ELSE (IF Head(items).tag = "Unit" THEN <<Head(items).unit>> ELSE << >>) \o units_of(Tail(items))

RECURSIVE alert_data_of(_)
\* partition_map, right: the alert data in file order
alert_data_of(items) ==
    IF items = << >> THEN << >>
    ELSE (IF Head(items).tag = "AlertData" THEN <<Head(items).data>> ELSE << >>)
             \o alert_data_of(Tail(items))

RECURSIVE verify_units_any_session(_, _, _, _)
verify_units_any_session(session, units, i, already_loaded_coords) ==
    IF i > Len(units) THEN TRUE
    ELSE IF \E parent_id \in units[i].parents_mask :
                <<round_sub(units[i].round, 1), parent_id>> \notin already_loaded_coords
    THEN FALSE
    ELSE verify_units_any_session(session, units, i + 1,
                                  already_loaded_coords \cup {coord(units[i])})

RECURSIVE verify_units(_, _, _, _)
\* BackupLoader::verify_units from unit i on: TRUE for Ok
verify_units(session, units, i, already_loaded_coords) ==
    IF i > Len(units) THEN TRUE
    ELSE IF units[i].session_id # session THEN FALSE
    ELSE IF \E parent_id \in units[i].parents_mask :
                <<round_sub(units[i].round, 1), parent_id>> \notin already_loaded_coords
    THEN FALSE
    ELSE verify_units(session, units, i + 1, already_loaded_coords \cup {coord(units[i])})

Max(S) == CHOOSE x \in S : \A y \in S : y <= x

\* next_round_backup in BackupLoader::run
next_round_backup(index, units) ==
    LET own == {units[i].round : i \in {j \in DOMAIN units : units[j].creator = index}}
    IN  IF own = {} THEN 0 ELSE round_add(Max(own), 1)

\* BackupLoader::new, before run
NewLoader(log, index, session) ==
    [pc |-> "new", backup |-> log, index |-> index, session_id |-> session,
     next_round_backup |-> 0, loaded_data |-> NotCalled, next_round_collection |-> NotCalled,
     starting_round |-> NotCalled]

\* on_shutdown
on_shutdown(l) == [l EXCEPT !.pc = "done", !.starting_round = None]

\* BackupLoader::run up to the wait for next_round_collection
run_until_collection(l, receiver_open) ==
    LET items == load(l.backup)
    IN  IF items = None THEN on_shutdown(l)
        ELSE LET units == units_of(items.val)
             IN  IF ~verify_units(l.session_id, units, 1, {}) THEN on_shutdown(l)
                 ELSE LET l1 == [l EXCEPT !.next_round_backup = next_round_backup(l.index, units)]
                      IN  IF ~receiver_open THEN on_shutdown(l1)
                          ELSE [l1 EXCEPT !.pc = "waiting",
                                          !.loaded_data =
                                              Some(<<units, alert_data_of(items.val)>>)]

run_from_collection_starting_anyway(l, response) ==
    IF response = None THEN on_shutdown(l)
    ELSE [l EXCEPT !.pc = "done", !.next_round_collection = response,
                   !.starting_round = Some(l.next_round_backup)]

\* BackupLoader::run from the answer of the unit collection on; None is a dropped sender
run_from_collection(l, response) ==
    IF response = None THEN on_shutdown(l)
    ELSE IF l.next_round_backup < response.val
    THEN on_shutdown([l EXCEPT !.next_round_collection = response])
    ELSE [l EXCEPT !.pc = "done", !.next_round_collection = response,
                   !.starting_round = Some(l.next_round_backup)]

(***************************************************************************)
(* Loading a backup: BackupLoader::run on bounded logs                     *)
(***************************************************************************)

MaxLogLen == 3

\* the items a log is made of: units of the own node and of node 1 in the current session,
\* a unit of another session, units at the first and the last round, alert data
LogItems ==
    {UnitItem(LogUnit(Own, 0, session_id, {})),
     UnitItem(LogUnit(1, 0, session_id, {})),
     UnitItem(LogUnit(Own, 1, session_id, {Own, 1})),
     UnitItem(LogUnit(Own, 0, session_id + 1, {})),
     UnitItem(LogUnit(1, 0, session_id, {Own})),
     UnitItem(LogUnit(Own, RoundMax, session_id, {})),
     AlertDataItem(OwnAlertData(OA))}

Logs == UNION {[1 .. len -> LogItems] : len \in 0 .. MaxLogLen}

RECURSIVE Written(_, _)
\* the file after the items of a log were written; cut names an item whose last cell is missing
Written(items, cut) ==
    IF items = << >> THEN << >>
    ELSE (IF cut = 1 THEN SubSeq(encode(Head(items)), 1, Len(encode(Head(items))) - 1)
          ELSE encode(Head(items)))
             \o Written(Tail(items), cut - 1)

Backups == {Written(items, 0) : items \in Logs}
               \cup UNION {{Written(items, cut) : cut \in DOMAIN items} : items \in Logs}

\* what the unit collection answers: a round or, for None, a dropped sender
Collections == {Some(r) : r \in 0 .. RoundMax} \cup {None}

\* run starts: the file is read, decoded and verified, and the loaded data is sent
LoaderLoads(receiver_open) ==
    /\ loader.pc = "new"
    /\ loader' = run_until_collection(loader, receiver_open)
    /\ UNCHANGED <<alerter, handlerVars, schedule, hashing, units_from_runway, responses_for_runway, wire, nodes,
                   environment, pendingVars, backupVars, service, outVars, rmcVars>>

\* run resumes with the answer of the unit collection
LoaderStarts(response) ==
    /\ loader.pc = "waiting"
    /\ loader' = run_from_collection(loader, response)
    /\ UNCHANGED <<alerter, handlerVars, schedule, hashing, units_from_runway, responses_for_runway, wire, nodes,
                   environment, pendingVars, backupVars, service, outVars, rmcVars>>

NextLoader ==
    \/ \E receiver_open \in BOOLEAN : LoaderLoads(receiver_open)
    \/ \E response \in Collections : LoaderStarts(response)

InitLoader ==
    /\ alerter = NewAlerter(Own, session_id)
    /\ call = NoCall
    /\ proof = GoodProof
    /\ who = NotCalled
    /\ accepted = NotCalled
    /\ environment = "alerting"
    /\ InitLoop
    /\ loader \in {NewLoader(log, Own, session_id) : log \in Backups}
    /\ units_from_runway = << >>
    /\ responses_for_runway = << >>
    /\ wire = [pc |-> "idle"]
    /\ schedule = EmptyMap
    /\ hashing = NoHashing

SpecLoader == InitLoader /\ [][NextLoader]_vars

(***************************************************************************)
(* Claims about the loader                                                 *)
(***************************************************************************)

\* the items the loader finds in its file, when all of it decodes
Loaded == load(loader.backup)

LoadedUnits == units_of(Loaded.val)

\* the log decodes and its units pass verify_units
Verifies == Loaded # None /\ verify_units(loader.session_id, LoadedUnits, 1, {})

OwnRounds == {LoadedUnits[i].round : i \in {j \in DOMAIN LoadedUnits : LoadedUnits[j].creator = loader.index}}

\* one more than the last own round in the log, as a number
NextOwnRound == IF OwnRounds = {} THEN 0 ELSE 1 + Max(OwnRounds)

\* the units of a written log, in the order they were written
RECURSIVE UnitsWritten(_)
UnitsWritten(items) ==
    IF items = << >> THEN << >>
    ELSE (IF Head(items).tag = "Unit" THEN <<Head(items).unit>> ELSE << >>)
             \o UnitsWritten(Tail(items))

\* C16: on a log that decodes and verifies, next_round_backup is one more than the
\* maximum round of the own units (0 without own units); the loader delivers the units in
\* file order, duplicates included, and when next_round_backup is at least the round the
\* collection reports, it signals Some(next_round_backup)
C16_StartsAfterLastOwnRound ==
    (loader.pc \in {"waiting", "done"} /\ Verifies) =>
        /\ loader.next_round_backup = NextOwnRound
        /\ loader.loaded_data # NotCalled =>
               \A items \in Logs :
                   Written(items, 0) = loader.backup =>
                       loader.loaded_data.val[1] = UnitsWritten(items)
        /\ (loader.pc = "done" /\ loader.next_round_collection # NotCalled
               /\ NextOwnRound >= loader.next_round_collection.val) =>
               loader.starting_round = Some(NextOwnRound)

\* C17: whenever next_round_backup is below the round the collection reports, the loader
\* signals None as starting round, and by then the loaded data has been delivered
C17_BackupBehindCollectionRefused ==
    (loader.pc = "done" /\ loader.next_round_collection # NotCalled
        /\ loader.next_round_backup < loader.next_round_collection.val) =>
        /\ loader.starting_round = None
        /\ loader.loaded_data = Some(<<LoadedUnits, alert_data_of(Loaded.val)>>)

\* a log of three rounds' worth of own units is refused when the collection reports more
C17_Witness ==
    /\ loader.pc = "done"
    /\ loader.next_round_backup = 2
    /\ loader.next_round_collection = Some(3)
    /\ loader.starting_round = None
    /\ Len(loader.loaded_data.val[1]) = 3

\* some unit of the log belongs to another session
WrongSession ==
    Loaded # None /\ \E i \in DOMAIN LoadedUnits : LoadedUnits[i].session_id # loader.session_id

MissingParent(i) ==
    \E parent_id \in LoadedUnits[i].parents_mask :
        ~\E j \in 1 .. (i - 1) :
            /\ LoadedUnits[j].creator = parent_id
            /\ LoadedUnits[j].round = LoadedUnits[i].round - 1

\* C19: the loader accepts the units of a log only if every parent named in a unit's
\* parents_mask has a unit at (round - 1, parent) earlier in the log; a log with a missing
\* parent makes it signal None and send no loaded data
C19_UnitsAcceptedOnlyAfterTheirParents ==
    (loader.pc # "new" /\ Loaded # None /\ \E i \in DOMAIN LoadedUnits : MissingParent(i)) =>
        /\ loader.pc = "done"
        /\ loader.starting_round = None
        /\ loader.loaded_data = NotCalled

(***************************************************************************)
(* The backup saver with both of its clients: BackupSaver::run             *)
(***************************************************************************)

MaxSaved == 3

\* what the runway and the alerter hand to the saver
SaverUnits == {LogUnit(Own, 0, session_id, {}), LogUnit(Own, 1, session_id, {Own})}
SaverData == {OwnAlertData(OA), MultisignedData(Hash(OA))}

Submitted == Len(units_from_runway) + Len(data_for_backup) + Len(backup)

\* the runway sends a unit on units_for_saving
RunwaySubmitsUnit(u) ==
    /\ Submitted < MaxSaved
    /\ units_from_runway' = Append(units_from_runway, u)
    /\ UNCHANGED <<alerter, handlerVars, schedule, hashing, loader, wire, responses_for_runway, nodes, environment,
                   pendingVars, backupVars, service, outVars, rmcVars>>

\* the alerter sends alert data on data_for_saving
AlerterSubmitsData(data) ==
    /\ service = "running"
    /\ Submitted < MaxSaved
    /\ data_for_backup' = Append(data_for_backup, data)
    /\ UNCHANGED <<alerter, handlerVars, storageVars, nodes, environment, pendingVars,
                   responses_from_backup, backup, saver, service, outVars, rmcVars>>

\* the alerter ends and drops its receiver of responses
AlerterStops ==
    /\ service = "running"
    /\ service' = "stopped"
    /\ UNCHANGED <<alerter, handlerVars, storageVars, nodes, environment, pendingVars,
                   backupVars, outVars, rmcVars>>

\* BackupSaver::run, units_from_runway branch: save_item, then the response
SaverSavesUnit ==
    /\ saver = "running"
    /\ units_from_runway # << >>
    /\ units_from_runway' = Tail(units_from_runway)
    /\ \E saved \in save_item(backup, UnitItem(Head(units_from_runway))),
          runway_open \in BOOLEAN :
          /\ backup' = saved.backup
          /\ IF saved.ok /\ runway_open
             THEN /\ responses_for_runway' =
                         Append(responses_for_runway, Head(units_from_runway))
                  /\ UNCHANGED saver
             ELSE /\ saver' = "stopped"
                  /\ UNCHANGED responses_for_runway
    /\ UNCHANGED <<alerter, handlerVars, schedule, hashing, loader, wire, nodes, environment, pendingVars,
                   data_for_backup, responses_from_backup, service, outVars, rmcVars>>

NextSaver ==
    \/ \E u \in SaverUnits : RunwaySubmitsUnit(u)
    \/ \E data \in SaverData : AlerterSubmitsData(data)
    \/ AlerterStops
    \/ SaverSavesUnit
    \/ SaverSavesAlertData
    \/ SaverStops

InitSaver ==
    /\ InitService
    /\ environment = "alerting"

SpecSaver == InitSaver /\ [][NextSaver]_vars

IsPrefix(s, t) == Len(s) <= Len(t) /\ SubSeq(t, 1, Len(s)) = s

\* C20: an acknowledgement leaves the saver only in a step in which the item's record was
\* written and flushed; every acknowledged item has its record in the log, and the log
\* only grows at its end
C20_AcknowledgedOnlyAfterRecordFlushed ==
    [][/\ IsPrefix(backup, backup')
       /\ responses_for_runway' # responses_for_runway =>
              /\ units_from_runway # << >>
              /\ responses_for_runway' = Append(responses_for_runway, Head(units_from_runway))
              /\ backup' = Append(backup, UnitItem(Head(units_from_runway)))
       /\ responses_from_backup' # responses_from_backup =>
              /\ data_for_backup # << >>
              /\ responses_from_backup' = Append(responses_from_backup, Head(data_for_backup))
              /\ backup' = Append(backup, AlertDataItem(Head(data_for_backup)))
       /\ \A u \in Range(responses_for_runway') : UnitItem(u) \in Range(backup')
       /\ \A data \in Range(responses_from_backup') : AlertDataItem(data) \in Range(backup')
      ]_vars

\* a unit and alert data were both acknowledged, and a later record was left torn
C20_Witness ==
    /\ responses_for_runway # << >>
    /\ responses_from_backup # << >>
    /\ Len(backup) = 3
    /\ backup[3] = TornItem

(***************************************************************************)
(* Failure and shutdown of the saver under Service::run                    *)
(***************************************************************************)

\* the saver takes the next alert data from its input in this step
SaverTakes == saver = "running" /\ data_for_backup # << >> /\ data_for_backup' = Tail(data_for_backup)

\* ... and save_item returns an error
SaveFails ==
    /\ SaverTakes
    /\ saver' = "stopped"
    /\ service = "running"

\* the alert data whose response the service has not taken yet
Unacknowledged(data) == data \notin Range(responses_from_backup)

\* the action kept for an own alert, a network alert or a completion is still to be emitted
OwnPending(h) ==
    /\ ~StartIssued(h)
    /\ [message |-> own_alert_responses[h].message,
        recipient |-> own_alert_responses[h].recipient] \notin messages_for_network

UnitsSent == {i \in DOMAIN notifications_for_units : notifications_for_units[i].tag = "Units"}

MultisignedAcknowledged ==
    {h \in KnownHashes : Recorded(MultisignedData(h)) /\ h \notin DOMAIN multisigned_notifications}

SaverReturns == saver = "running" /\ saver' = "stopped" /\ ~SaverTakes

\* the service returns in this step while the saver is at work
ServiceReturns == service = "running" /\ service' = "stopped" /\ saver = "running"

\* C22: a task that returns on the exit signal has drained its input: the saver has written
\* every record submitted to it, and the service has no backup write in flight, neither
\* waiting at the saver nor acknowledged and not yet taken
C22_InputDrainedBeforeReturning ==
    [][/\ SaverReturns => data_for_backup = << >>
       /\ ServiceReturns => (data_for_backup = << >> /\ responses_from_backup = << >>)
      ]_vars

(***************************************************************************)
(* The codec of AlertMessage (derive(Encode, Decode) in alerts/mod.rs):    *)
(* an encoding is the sequence of the fields' encodings, an enum starts    *)
(* with the index of its variant, a Vec with its length; a hash is its own *)
(* bytes                                                                   *)
(***************************************************************************)

\* UncheckedSigned<FullUnit>: the unit's fields, then the signature
encode_unit(u) == <<u.creator, u.round, u.session_id, u.variant, u.signature>>

RECURSIVE encode_units(_)
encode_units(units) ==
    IF units = << >> THEN << >> ELSE encode_unit(Head(units)) \o encode_units(Tail(units))

\* Alert: sender, proof, legit_units; the field hash is skipped
encode_alert(alert) ==
    <<alert.sender>> \o encode_unit(alert.proof[1]) \o encode_unit(alert.proof[2])
        \o <<Len(alert.legit_units)>> \o encode_units(alert.legit_units)

\* Message of the RMC: a signed hash with its signer, or a hash with its set of signatures
encode_rmc(m) ==
    IF m.kind = "SignedHash"
    THEN <<0, m.hash, CHOOSE signer \in m.signers : TRUE>>
    ELSE <<1, m.hash, mask_code(m.signers, 0)>>

\* Encode for AlertMessage
encode_message(m) ==
    CASE m.tag = "ForkAlert" -> <<0>> \o encode_alert(m.alert.signable) \o <<m.alert.signature>>
      [] m.tag = "RmcMessage" -> <<1, m.sender>> \o encode_rmc(m.message)
      [] m.tag = "AlertRequest" -> <<2, m.node, m.hash>>

\* the rest of the input after its first k cells
Drop(input, k) == SubSeq(input, k + 1, Len(input))

decode_unit(input) ==
    IF Len(input) < 5 THEN None
    ELSE Some([val |-> Unit(input[1], input[2], input[3], input[4], input[5]),
               rest |-> Drop(input, 5)])

RECURSIVE decode_units(_, _)
\* count units in a row
decode_units(input, count) ==
    IF count = 0 THEN Some([val |-> << >>, rest |-> input])
    ELSE LET first == decode_unit(input)
         IN  IF first = None THEN None
             ELSE LET more == decode_units(first.val.rest, count - 1)
                  IN  IF more = None THEN None
                      ELSE Some([val |-> <<first.val.val>> \o more.val.val,
                                 rest |-> more.val.rest])

\* Decode for Alert; the skipped field hash starts as its default, None
decode_alert(input) ==
    IF input = << >> THEN None
    ELSE LET first == decode_unit(Drop(input, 1))
         IN  IF first = None THEN None
             ELSE LET second == decode_unit(first.val.rest)
                  IN  IF second = None \/ second.val.rest = << >> THEN None
                      ELSE LET legit == decode_units(Drop(second.val.rest, 1),
                                                     second.val.rest[1])
                           IN  IF legit = None THEN None
                               ELSE Some([val |-> Alert(input[1],
                                                        <<first.val.val, second.val.val>>,
                                                        legit.val.val),
                                          rest |-> legit.val.rest])

decode_rmc(input) ==
    IF Len(input) < 3 THEN None
    ELSE IF input[1] = 0
    THEN Some([val |-> SignedHash(input[2], input[3]), rest |-> Drop(input, 3)])
    ELSE IF input[1] = 1
    THEN Some([val |-> MultisignedHash(input[2], mask_of(input[3])), rest |-> Drop(input, 3)])
    ELSE None

decode_message_own_requests(input) ==
    IF input = << >> THEN None
    ELSE IF input[1] = 0
    THEN LET alert == decode_alert(Drop(input, 1))
         IN  IF alert = None \/ alert.val.rest = << >> THEN None
             ELSE Some([val |-> ForkAlert(SignedAlert(alert.val.val, alert.val.rest[1])),
                        rest |-> Drop(alert.val.rest, 1)])
    ELSE IF input[1] = 1
    THEN IF Len(input) < 2 THEN None
         ELSE LET m == decode_rmc(Drop(input, 2))
              IN  IF m = None THEN None
                  ELSE Some([val |-> RmcMessage(input[2], m.val.val), rest |-> m.val.rest])
    ELSE IF input[1] = 2
    THEN IF Len(input) < 3 THEN None
         ELSE Some([val |-> AlertRequest(Own, input[3]), rest |-> Drop(input, 3)])
    ELSE None

\* Decode for AlertMessage: the message and the rest of the input, or an error
decode_message(input) ==
    IF input = << >> THEN None
    ELSE IF input[1] = 0
    THEN LET alert == decode_alert(Drop(input, 1))
         IN  IF alert = None \/ alert.val.rest = << >> THEN None
             ELSE Some([val |-> ForkAlert(SignedAlert(alert.val.val, alert.val.rest[1])),
                        rest |-> Drop(alert.val.rest, 1)])
    ELSE IF input[1] = 1
    THEN IF Len(input) < 2 THEN None
         ELSE LET m == decode_rmc(Drop(input, 2))
              IN  IF m = None THEN None
                  ELSE Some([val |-> RmcMessage(input[2], m.val.val), rest |-> m.val.rest])
    ELSE IF input[1] = 2
    THEN IF Len(input) < 3 THEN None
         ELSE Some([val |-> AlertRequest(input[2], input[3]), rest |-> Drop(input, 3)])
    ELSE None

\* Alert::hash on an alert whose field hash holds cache: the cached value or, with an
\* empty cache, H::hash of the alert's encoding; Hash(alert) stands for the latter
hash_with_cache(alert, cache) == IF cache = None THEN Hash(alert) ELSE cache.val

(***************************************************************************)
(* SpecCodec: every message is hashed, encoded, decoded and hashed again   *)
(***************************************************************************)

WireMessages ==
    {ForkAlert(sa) : sa \in HandlerNetAlerts \cup {Sign(alert, Own) : alert \in HandlerOwnAlerts}}
        \cup {RmcMessage(sender, m) : sender \in {1, 2}, m \in HandlerRmcMessages}
        \cup {AlertRequest(node, h) : node \in Nodes, h \in HandlerPeerHashes}

\* the field hash of a message's alert before anything is computed: empty, or filled by an
\* earlier call of hash()
Caches(m) == IF m.tag = "ForkAlert" THEN {None, Some(Hash(m.alert.signable))} ELSE {None}

\* the sender calls hash() on the alert
WireHash ==
    /\ wire.pc = "new"
    /\ wire.message.tag = "ForkAlert"
    /\ wire.hash_before = NotCalled
    /\ LET h == hash_with_cache(wire.message.alert.signable, wire.cache)
       IN  wire' = [wire EXCEPT !.hash_before = Some(h), !.cache = Some(h)]
    /\ UNCHANGED <<alerter, handlerVars, schedule, hashing, loader, units_from_runway, responses_for_runway, nodes,
                   environment, pendingVars, backupVars, service, outVars, rmcVars>>

\* the sender encodes the message
WireEncode ==
    /\ wire.pc = "new"
    /\ wire' = [wire EXCEPT !.pc = "encoded", !.encoded = encode_message(wire.message)]
    /\ UNCHANGED <<alerter, handlerVars, schedule, hashing, loader, units_from_runway, responses_for_runway, nodes,
                   environment, pendingVars, backupVars, service, outVars, rmcVars>>

\* a receiver decodes it
WireDecode ==
    /\ wire.pc = "encoded"
    /\ wire' = [wire EXCEPT !.pc = "decoded", !.decoded = decode_message(wire.encoded)]
    /\ UNCHANGED <<alerter, handlerVars, schedule, hashing, loader, units_from_runway, responses_for_runway, nodes,
                   environment, pendingVars, backupVars, service, outVars, rmcVars>>

\* the receiver calls hash() on the decoded alert, whose field hash is empty
WireHashDecoded ==
    /\ wire.pc = "decoded"
    /\ wire.decoded # None
    /\ wire.decoded.val.val.tag = "ForkAlert"
    /\ wire' = [wire EXCEPT !.pc = "hashed",
                            !.hash_after =
                                Some(hash_with_cache(wire.decoded.val.val.alert.signable, None))]
    /\ UNCHANGED <<alerter, handlerVars, schedule, hashing, loader, units_from_runway, responses_for_runway, nodes,
                   environment, pendingVars, backupVars, service, outVars, rmcVars>>

NextCodec ==
    \/ WireHash
    \/ WireEncode
    \/ WireDecode
    \/ WireHashDecoded

InitCodec ==
    /\ alerter = NewAlerter(Own, session_id)
    /\ call = NoCall
    /\ proof = GoodProof
    /\ who = NotCalled
    /\ accepted = NotCalled
    /\ environment = "alerted"
    /\ InitLoop
    /\ loader = [pc |-> "idle"]
    /\ units_from_runway = << >>
    /\ responses_for_runway = << >>
    /\ schedule = EmptyMap
    /\ hashing = NoHashing
    /\ wire \in UNION {{[pc |-> "new", message |-> m, cache |-> cache,
                            hash_before |-> NotCalled, encoded |-> << >>,
                            decoded |-> NotCalled, hash_after |-> NotCalled]
                              : cache \in Caches(m)} : m \in WireMessages}

SpecCodec == InitCodec /\ [][NextCodec]_vars

replay_item(a, item) ==
    IF item.tag # "AlertData" THEN a
    ELSE CASE item.data.tag = "OwnAlert" -> on_own_alert(a, item.data.alert).alerter
           [] item.data.tag = "NetworkAlert" ->
                  on_network_alert(a, SignedAlert(item.data.alert, item.data.alert.sender)).alerter
           [] item.data.tag = "MultisignedHash" -> alert_confirmed(a, item.data.hash).alerter

RECURSIVE replay(_, _)
replay(a, log) == IF log = << >> THEN a ELSE replay(replay_item(a, Head(log)), Tail(log))

\* both tasks have returned and the log decodes: the node starts again with the handler
\* the replay gives; call.pre keeps the handler of the node that went down
Restart ==
    /\ service = "stopped"
    /\ saver = "stopped"
    /\ TornItem \notin Range(backup)
    /\ call.op # "restart"
    /\ alerter' = replay(NewAlerter(Own, session_id), backup)
    /\ call' = [op |-> "restart", arg |-> backup, ret |-> None, pre |-> alerter]
    /\ UNCHANGED <<proof, who, accepted, loopVars>>

NextRestart ==
    \/ NextService
    \/ Restart

SpecRestart == InitSaver /\ [][NextRestart]_vars

\* no record the service submitted was lost to a failed write: the record of every waiting
\* entry is in the log or still in the saver's input
NothingFailed ==
    /\ \A h \in DOMAIN own_alert_responses :
           \/ Recorded(OwnAlertData(call.pre.known_alerts[h].signable))
           \/ OwnAlertData(call.pre.known_alerts[h].signable) \in Range(data_for_backup)
    /\ \A h \in DOMAIN network_alert_responses :
           \/ Recorded(NetworkAlertData(call.pre.known_alerts[h].signable))
           \/ NetworkAlertData(call.pre.known_alerts[h].signable) \in Range(data_for_backup)
    /\ \A h \in DOMAIN multisigned_notifications :
           Recorded(MultisignedData(h)) \/ MultisignedData(h) \in Range(data_for_backup)

\* two handlers answer every next event alike
SameAnswers(a, b) ==
    /\ \A node \in Requesters, h \in {Hash(OA), Hash(NA1)} :
           on_alert_request(a, node, h) = on_alert_request(b, node, h)
    /\ \A m \in LoopRmcMessages :
           on_rmc_message(a, RmcSender(m), m) = on_rmc_message(b, RmcSender(m), m)
    /\ \A sa \in {SignedAlert(NA1, 1)} :
           on_network_alert(a, sa).response = on_network_alert(b, sa).response
    /\ \A h \in {Hash(OA), Hash(NA1)} :
           alert_confirmed(a, h).response = alert_confirmed(b, h).response

\* C24: a node shut down by the exit signal and started again from its log answers every
\* later event as the node would have answered it without the restart
C24_RestartedNodeAnswersAsBefore ==
    (call.op = "restart" /\ NothingFailed) => SameAnswers(alerter, call.pre)

(***************************************************************************)
(* Further claims about the handler                                        *)
(***************************************************************************)

\* every unit is correctly signed and created by forker, and no two share a round
ValidCommitment(forker, l) ==
    /\ \A i \in 1 .. Len(l) : check_unit(l[i]) /\ l[i].creator = forker
    /\ DistinctRounds(l)

InitCommitment ==
    /\ alerter = NewAlerter(Own, session_id)
    /\ call = NoCall
    /\ proof = GoodProof
    /\ who = NotCalled
    /\ accepted = NotCalled
    /\ environment = "committed"
    /\ InitLoop
    /\ InitStorage

SpecCommitment == InitCommitment /\ [][NextService]_vars

\* the completions handled for cached alerts whose commitment is not valid
InvalidConfirmed ==
    {h \in Range(confirmations) \cap KnownHashes :
        ~ValidCommitment(forker_of(alerter.known_alerts[h].signable),
                         alerter.known_alerts[h].signable.legit_units)}

\* C26: after a completion for a cached alert with an invalid commitment no Units
\* notification goes to consensus, and the MultisignedHash record of the completion is
\* written to the backup: with the saver at work it is in the log or waiting in its input
C26_InvalidCommitmentStillRecorded ==
    \A h \in InvalidConfirmed :
        /\ Units(alerter.known_alerts[h].signable.legit_units) \notin Range(notifications_for_units)
        /\ saver = "running" =>
               \/ Recorded(MultisignedData(h))
               \/ MultisignedData(h) \in Range(data_for_backup)

(***************************************************************************)
(* The Forker notification                                                 *)
(***************************************************************************)

\* the call recorded in c was an on_network_alert that returned Forker(proof)
NotifiesForker(c) ==
    /\ c.op = "on_network_alert"
    /\ c.ret # None
    /\ c.ret.val.notification # None
    /\ c.ret.val.notification.val.tag = "Forker"

\* C27: over any sequence of on_own_alert and on_network_alert calls at one node a
\* Forker notification is produced at most once per forker: only by an accepted network
\* alert naming a forker that is not in known_forkers at the call, which registers the
\* forker; no call removes a forker from known_forkers, so an alert naming a forker
\* registered earlier (by a network alert of any sender or by an own alert) produces
\* none; on_own_alert produces none.
C27_ForkerNotifiedOncePerForker ==
    [][/\ DOMAIN alerter.known_forkers \subseteq DOMAIN alerter'.known_forkers
       /\ NotifiesForker(call') =>
              LET forker == forker_of(call'.arg.signable)
              IN  /\ call'.ret.val.notification.val.proof = call'.arg.signable.proof
                  /\ Some(forker) = who_is_forking(alerter, call'.arg.signable.proof)
                  /\ ~is_forker(alerter, forker)
                  /\ is_forker(alerter', forker)
       /\ (call'.op = "on_network_alert" /\ call'.ret # None /\ ~NotifiesForker(call')) =>
              /\ call'.ret.val.notification = None
              /\ is_forker(alerter, forker_of(call'.arg.signable))]_vars

\* a second sender's alert about a forker registered by an earlier network alert was
\* accepted without a notification
C27_Witness ==
    /\ call.op = "on_network_alert"
    /\ call.ret # None
    /\ call.ret.val.notification = None
    /\ call.arg.signable.sender = 2
    /\ Hash(Alert(1, GoodProof, << >>)) \in DOMAIN call.pre.known_alerts
    /\ is_forker(call.pre, F)

(***************************************************************************)
(* The mock keychain's quorum and is_complete; SpecThreshold: is_complete  *)
(* on every partial multisignature of up to MaxMembers members, next to    *)
(* the event loop with its RMC engine                                      *)
(***************************************************************************)

MaxMembers == 7

\* Keychain::quorum of a keychain for count members
keychain_quorum(count) == (2 * count) \div 3 + 1

\* Signature::new(msg, index) of the mock crypto
Sgn(msg, index) == [msg |-> msg, index |-> index]

\* Keychain::verify
keychain_verify(msg, sgn, index) == index = sgn.index /\ msg = sgn.msg

partial_is_complete_counting_only(count, msg, partial) ==
    Cardinality(DOMAIN partial) >= keychain_quorum(count)

\* Keychain::is_complete on a SignatureSet, a map from member index to signature
partial_is_complete(count, msg, partial) ==
    LET signature_count == Cardinality(DOMAIN partial)
    IN  IF signature_count < keychain_quorum(count) THEN FALSE
        ELSE \A i \in DOMAIN partial : keychain_verify(msg, partial[i], i)

\* per member: no signature, its signature of the message, another member's signature,
\* its signature of another message
SlotKinds == {"none", "signed", "other_index", "other_msg"}

PartialOf(count, msg, slots) ==
    [i \in {j \in 0 .. (count - 1) : slots[j] # "none"} |->
        CASE slots[i] = "signed" -> Sgn(msg, i)
          [] slots[i] = "other_index" -> Sgn(msg, (i + 1) % count)
          [] slots[i] = "other_msg" -> Sgn(Hash(NA1), i)]

KeychainQuestion(count, slots) ==
    [count |-> count, msg |-> Hash(OA), partial |-> PartialOf(count, Hash(OA), slots)]

\* a keychain is asked about a partial multisignature; no event loop runs
InitKeychain ==
    /\ alerter = NewAlerter(Own, session_id)
    /\ \E count \in 1 .. MaxMembers :
          \E slots \in [0 .. (count - 1) -> SlotKinds] :
              call = [op |-> "is_complete", arg |-> KeychainQuestion(count, slots),
                      ret |-> NotCalled, pre |-> NewAlerter(Own, session_id)]
    /\ proof = GoodProof
    /\ who = NotCalled
    /\ accepted = NotCalled
    /\ environment = "alerted"
    /\ nodes = InitNodes
    /\ own_alert_responses = EmptyMap
    /\ network_alert_responses = EmptyMap
    /\ multisigned_notifications = EmptyMap
    /\ data_for_backup = << >>
    /\ responses_from_backup = << >>
    /\ backup = << >>
    /\ saver = "stopped"
    /\ service = "stopped"
    /\ messages_for_network = {}
    /\ notifications_for_units = << >>
    /\ messages_for_rmc = << >>
    /\ rmc = NewRmc
    /\ confirmations = << >>
    /\ InitStorage

KeychainIsComplete ==
    /\ call.op = "is_complete"
    /\ call.ret = NotCalled
    /\ call' = [call EXCEPT !.ret = Some(partial_is_complete(call.arg.count, call.arg.msg,
                                                             call.arg.partial))]
    /\ UNCHANGED <<alerter, proof, who, accepted, loopVars>>

InitThreshold == InitKeychain \/ InitService

NextThreshold == KeychainIsComplete \/ NextService

SpecThreshold == InitThreshold /\ [][NextThreshold]_vars

Answered == call.op = "is_complete" /\ call.ret # NotCalled

\* the members whose signature in the partial multisignature verifies for their index
Verifying(q) == {i \in DOMAIN q.partial : q.partial[i] = Sgn(q.msg, i)}

\* C28: a multisignature is complete exactly when it holds at least floor(2N/3)+1
\* signatures of distinct member indices and each of them verifies for its index on the
\* message; for N = 7 five verifying signatures complete and three do not; and the RMC
\* engine holds a hash as multisigned, and reports it with NewMultisigned, only with a
\* set of signatures (gathered, or taken from a Complete message) that reaches the
\* threshold.
C28_CompleteExactlyAtQuorumOfVerifyingSignatures ==
    /\ Answered =>
          LET q == call.arg
          IN  /\ call.ret.val = (/\ Cardinality(DOMAIN q.partial) >= (2 * q.count) \div 3 + 1
                                 /\ Verifying(q) = DOMAIN q.partial)
              /\ (q.count = 7 /\ Verifying(q) = DOMAIN q.partial) =>
                     /\ Cardinality(DOMAIN q.partial) = 5 => call.ret.val
                     /\ Cardinality(DOMAIN q.partial) = 3 => ~call.ret.val
    /\ \A h \in rmc.multisigned : Cardinality(rmc_sigs(rmc, h)) >= (2 * n_members) \div 3 + 1
    /\ rmc.unreported \subseteq rmc.multisigned
    /\ Range(confirmations) \subseteq rmc.multisigned

\* a keychain of seven members has refused six signatures one of which does not verify
C28_Witness ==
    /\ Answered
    /\ call.arg.count = 7
    /\ Cardinality(DOMAIN call.arg.partial) = 6
    /\ Cardinality(Verifying(call.arg)) = 5
    /\ call.ret = Some(FALSE)

(***************************************************************************)
(* SpecSchedule: the RMC engine (crate aleph_bft_rmc, not in this          *)
(* repository's files) with its doubling-delay scheduler, as the event     *)
(* loops drive it: start, incoming messages, and what it emits.  The       *)
(* delays are left out: a retransmission of a hash in progress can happen  *)
(* at any time, and under fairness always happens again.                   *)
(***************************************************************************)

ScheduleHashes == {Hash(OA), Hash(NA1)}

\* per hash: tick alternates with every broadcast of the own partial signature,
\* reported counts the NewMultisigned emitted
NewSchedule == [h \in ScheduleHashes |-> [tick |-> 0, reported |-> 0]]

\* partial signatures of the three peers, a complete and an incomplete multisignature
ScheduleMessages ==
    {SignedHash(h, g) : h \in ScheduleHashes, g \in 1 .. 3}
        \cup {MultisignedHash(h, signers) : h \in ScheduleHashes,
                                             signers \in {QuorumSigners, SubQuorumSigners}}

InitSchedule ==
    /\ alerter = NewAlerter(Own, session_id)
    /\ call = NoCall
    /\ proof = GoodProof
    /\ who = NotCalled
    /\ accepted = NotCalled
    /\ environment = "both"
    /\ InitLoop
    /\ loader = [pc |-> "idle"]
    /\ units_from_runway = << >>
    /\ responses_for_runway = << >>
    /\ wire = [pc |-> "idle"]
    /\ schedule = NewSchedule
    /\ hashing = NoHashing

\* StartRmc(h) reaches the engine
ScheduleStart(h) ==
    /\ rmc' = rmc_handle(rmc, Own, StartRmc(h))
    /\ UNCHANGED <<alerter, inputVars, pendingVars, backupVars, service, outVars,
                   messages_for_rmc, confirmations>>

\* a peer's RMC message reaches the engine
ScheduleReceive(m) ==
    /\ rmc' = rmc_handle(rmc, Own, RmcHash(m))
    /\ UNCHANGED <<alerter, inputVars, pendingVars, backupVars, service, outVars,
                   messages_for_rmc, confirmations>>

SchedulePartialAfterCompletion(h) ==
    /\ h \in rmc.started
    /\ messages_for_network' = messages_for_network \cup
           {[message |-> RmcMessage(Own, SignedHash(h, Own)), recipient |-> Everyone]}
    /\ schedule' = [schedule EXCEPT ![h].tick = 1 - @]
    /\ UNCHANGED <<alerter, handlerVars, hashing, loader, units_from_runway, responses_for_runway, wire,
                   nodes, environment, pendingVars, backupVars, service,
                   notifications_for_units, rmcVars>>

\* a deadline of the scheduler for h: the engine emits the own partial signature, the
\* loop broadcasts it
SchedulePartial(h) ==
    /\ h \in rmc.started \ rmc.multisigned
    /\ messages_for_network' = messages_for_network \cup
           {[message |-> RmcMessage(Own, SignedHash(h, Own)), recipient |-> Everyone]}
    /\ schedule' = [schedule EXCEPT ![h].tick = 1 - @]
    /\ UNCHANGED <<alerter, handlerVars, hashing, loader, units_from_runway, responses_for_runway, wire,
                   nodes, environment, pendingVars, backupVars, service,
                   notifications_for_units, rmcVars>>

\* the engine emits NewMultisigned for h
ScheduleMultisigned(h) ==
    /\ h \in rmc.unreported
    /\ rmc' = [rmc EXCEPT !.unreported = @ \ {h}]
    /\ schedule' = [schedule EXCEPT ![h].reported = @ + 1]
    /\ confirmations' = Append(confirmations, h)
    /\ UNCHANGED <<alerter, handlerVars, hashing, loader, units_from_runway, responses_for_runway, wire,
                   nodes, environment, pendingVars, backupVars, service, outVars,
                   messages_for_rmc>>

NextSchedule ==
    \/ \E h \in ScheduleHashes : ScheduleStart(h)
    \/ \E m \in ScheduleMessages : ScheduleReceive(m)
    \/ \E h \in ScheduleHashes : SchedulePartial(h)
    \/ \E h \in ScheduleHashes : ScheduleMultisigned(h)

SpecSchedule == InitSchedule /\ [][NextSchedule]_vars

\* the scheduler's deadlines keep coming
FairSpecSchedule ==
    SpecSchedule /\ \A h \in ScheduleHashes : WF_vars(SchedulePartial(h))

\* all that the engine holds and has emitted for one hash
HashState(h) ==
    <<h \in rmc.started, rmc_sigs(rmc, h), h \in rmc.multisigned, h \in rmc.unreported,
      schedule[h]>>

InProgress(h) == h \in rmc.started /\ h \notin rmc.multisigned

BackupSendFails ==
    /\ service = "running"
    /\ saver = "stopped"
    /\ responses_from_backup' = responses_from_backup
    /\ \/ DOMAIN own_alert_responses' # DOMAIN own_alert_responses
       \/ DOMAIN network_alert_responses' # DOMAIN network_alert_responses
       \/ DOMAIN multisigned_notifications' # DOMAIN multisigned_notifications

\* C30: whenever the alert service finds a channel closed (here: a send to the backup
\* fails) it goes to the exiting state and its run loop stops without handling further
\* events.
C30_ClosedChannelStopsService ==
    [][BackupSendFails => service' = "stopped"]_vars

(***************************************************************************)
(* FairSpecService: Service::run and the saver, both scheduled again and   *)
(* again: a response of the backup that waits is taken, a record that      *)
(* waits is saved                                                          *)
(***************************************************************************)

FairSpecService ==
    /\ InitSaver
    /\ [][NextService]_vars
    /\ WF_vars(ServiceDataFromBackup)
    /\ WF_vars(SaverSavesAlertData)

\* the ForkAlert of an own alert went out to Everyone and StartRmc for its hash was issued
OwnAlertSentAndStarted(alert) ==
    /\ [message |-> ForkAlert(Sign(alert, Own)), recipient |-> Everyone] \in messages_for_network
    /\ StartIssued(Hash(alert))

\* C31: every alert received from consensus is eventually broadcast as ForkAlert to
\* Everyone and followed by StartRmc(hash), unless the saver stops (its exit, or a failed
\* write) or the service stops (its exit, or a closed channel); the service and the saver
\* are weakly fair.
C31_OwnAlertEventuallyBroadcastAndStarted ==
    \A alert \in {OA} :
        (Hash(alert) \in DOMAIN own_alert_responses)
            ~> (OwnAlertSentAndStarted(alert) \/ service = "stopped" \/ saver = "stopped")

\* the own alert was recorded, acknowledged, broadcast and its multicast started, with
\* the service and the saver still running
C31_Witness ==
    /\ Recorded(OwnAlertData(OA))
    /\ Hash(OA) \notin DOMAIN own_alert_responses
    /\ OwnAlertSentAndStarted(OA)
    /\ service = "running"
    /\ saver = "running"

(***************************************************************************)
(* SpecReport: Service::run when the RMC engine reports a completion more  *)
(* than once: through its output channel and as the value of its future,   *)
(* or again later                                                          *)
(***************************************************************************)

MaxReports == 3

\* rmc_io.receive() or rmc_service.run() yields a multisigned hash that was reported before
ServiceMultisignedAgain ==
    \E h \in rmc.multisigned \ rmc.unreported :
        /\ service = "running"
        /\ Len(confirmations) < MaxReports
        /\ HandleMultisigned(h)
        /\ UNCHANGED <<inputVars, own_alert_responses, network_alert_responses,
                       responses_from_backup, backup, saver, service, outVars,
                       messages_for_rmc, rmc>>

NextReport == NextService \/ ServiceMultisignedAgain

SpecReport == InitSaver /\ [][NextReport]_vars

(***************************************************************************)
(* Acknowledgements of the backup                                          *)
(***************************************************************************)

\* the loop takes a response of the backup in this step
AckTaken ==
    /\ service = "running"
    /\ responses_from_backup # << >>
    /\ responses_from_backup' = Tail(responses_from_backup)

AckHash(data) == IF data.tag = "MultisignedHash" THEN data.hash ELSE Hash(data.alert)

\* the pending-action table of the record's kind
AckTable(data) ==
    CASE data.tag = "OwnAlert" -> own_alert_responses
      [] data.tag = "NetworkAlert" -> network_alert_responses
      [] data.tag = "MultisignedHash" -> multisigned_notifications

\* C32: when an acknowledgement arrives and the table of its kind has no entry for the
\* record's hash, the service sends nothing to the network, to the RMC engine or to
\* consensus and leaves the three tables as they are; otherwise the acknowledgement
\* removes exactly that entry, so no entry is executed twice.
C32_MissingEntryIsIgnoredAndEntriesExecuteOnce ==
    [][AckTaken =>
          LET data == Head(responses_from_backup)
              h == AckHash(data)
          IN  IF h \notin DOMAIN AckTable(data)
              THEN UNCHANGED <<pendingVars, outVars, messages_for_rmc>>
              ELSE /\ own_alert_responses' =
                          IF data.tag = "OwnAlert" THEN Remove(own_alert_responses, h)
                          ELSE own_alert_responses
                   /\ network_alert_responses' =
                          IF data.tag = "NetworkAlert" THEN Remove(network_alert_responses, h)
                          ELSE network_alert_responses
                   /\ multisigned_notifications' =
                          IF data.tag = "MultisignedHash" THEN Remove(multisigned_notifications, h)
                          ELSE multisigned_notifications]_vars

RecordsOf(data) == {i \in DOMAIN backup : backup[i] = AlertDataItem(data)}

\* a completion was recorded twice and both acknowledgements were taken; one of them found
\* no entry, and one notification went to consensus
C32_Witness ==
    /\ service = "running"
    /\ Cardinality(RecordsOf(MultisignedData(Hash(OA)))) = 2
    /\ data_for_backup = << >>
    /\ responses_from_backup = << >>
    /\ multisigned_notifications = EmptyMap
    /\ Cardinality(UnitsSent) = 1

(***************************************************************************)
(* The handler's tables over a session                                     *)
(***************************************************************************)

\* C33: handler state is monotone within a session: a creator in the forker registry
\* stays there after every handler operation, no entry is removed from known_alerts and
\* no (sender, forker) key is removed from known_rmcs.
C33_TablesOnlyGrow ==
    [][/\ DOMAIN alerter.known_forkers \subseteq DOMAIN alerter'.known_forkers
       /\ DOMAIN alerter.known_alerts \subseteq DOMAIN alerter'.known_alerts
       /\ DOMAIN alerter.known_rmcs \subseteq DOMAIN alerter'.known_rmcs]_vars

\* a completion was handled by a handler that held a forker, two alerts and two pairs, and
\* holds them all afterwards
C33_Witness ==
    /\ call.op = "alert_confirmed"
    /\ call.ret # None
    /\ DOMAIN call.pre.known_forkers = {F}
    /\ Cardinality(DOMAIN call.pre.known_alerts) = 2
    /\ Cardinality(DOMAIN call.pre.known_rmcs) = 2
    /\ DOMAIN alerter.known_forkers = DOMAIN call.pre.known_forkers
    /\ DOMAIN alerter.known_alerts = DOMAIN call.pre.known_alerts
    /\ DOMAIN alerter.known_rmcs = DOMAIN call.pre.known_rmcs

(***************************************************************************)
(* SpecHashCache: Alert::hash called by several threads on one alert and   *)
(* on its clone.  The field hash is an RwLock<Option<Hash>>: a read takes  *)
(* the read lock for the copy of the value, a write holds the write lock   *)
(* from its acquisition to the store; clone uses try_read.                 *)
(***************************************************************************)

MaxReaders == 3

Readers == 1 .. MaxReaders

\* the alert and, once made, its clone
Instances == {1, 2}

Absent == [tag |-> "Absent"]
Free == 0

IdleReader == [pc |-> "idle", on |-> 1, hash |-> None, ret |-> NotCalled]

\* Alert::new, or an alert decoded from the wire: the field hash is empty
InitHashCache ==
    /\ alerter = NewAlerter(Own, session_id)
    /\ call = NoCall
    /\ proof = GoodProof
    /\ who = NotCalled
    /\ accepted = NotCalled
    /\ environment = "alerted"
    /\ InitLoop
    /\ loader = [pc |-> "idle"]
    /\ units_from_runway = << >>
    /\ responses_for_runway = << >>
    /\ wire = [pc |-> "idle"]
    /\ schedule = EmptyMap
    /\ \E alert \in {OA, NA2} :
          hashing = [pc |-> "shared", alert |-> alert, cache |-> <<None, Absent>>,
                     lock |-> <<Free, Free>>, readers |-> [t \in Readers |-> IdleReader]]

HashingStep(next) ==
    /\ hashing' = next
    /\ UNCHANGED <<alerter, handlerVars, schedule, loader, units_from_runway,
                   responses_for_runway, wire, nodes, environment, pendingVars, backupVars,
                   service, outVars, rmcVars>>

\* a thread calls hash() on an instance
HashCall(t, i) ==
    /\ hashing.readers[t].pc = "idle"
    /\ hashing.cache[i] # Absent
    /\ HashingStep([hashing EXCEPT !.readers[t].pc = "called", !.readers[t].on = i,
                                   !.readers[t].hash = None])

\* let hash = *self.hash.read(): with Some(hash) the call returns it
HashRead(t) ==
    LET r == hashing.readers[t]
        seen == hashing.cache[r.on]
    IN  /\ r.pc = "called"
        /\ hashing.lock[r.on] = Free
        /\ HashingStep(IF seen # None
                       THEN [hashing EXCEPT !.readers[t].pc = "idle",
                                            !.readers[t].ret =
                                                Some(hash_with_cache(hashing.alert, seen))]
                       ELSE [hashing EXCEPT !.readers[t].pc = "computing"])

\* let hash = self.using_encoded(H::hash); self.hash.write() is granted
HashLock(t) ==
    LET r == hashing.readers[t]
    IN  /\ r.pc = "computing"
        /\ hashing.lock[r.on] = Free
        /\ HashingStep([hashing EXCEPT !.readers[t].pc = "writing",
                                       !.readers[t].hash =
                                           Some(hash_with_cache(hashing.alert, None)),
                                       !.lock[r.on] = t])

HashWriteResetting(t) ==
    LET r == hashing.readers[t]
    IN  /\ r.pc = "writing"
        /\ HashingStep([hashing EXCEPT !.readers[t].pc = "idle",
                                       !.readers[t].ret = r.hash,
                                       !.cache[r.on] = IF @ = None THEN r.hash ELSE None,
                                       !.lock[r.on] = Free])

\* *self.hash.write() = Some(hash); the call returns hash
HashWrite(t) ==
    LET r == hashing.readers[t]
    IN  /\ r.pc = "writing"
        /\ HashingStep([hashing EXCEPT !.readers[t].pc = "idle",
                                       !.readers[t].ret = r.hash,
                                       !.cache[r.on] = r.hash,
                                       !.lock[r.on] = Free])

\* Alert::clone: the clone's field hash is what try_read gives, nothing while a writer
\* holds the lock
CloneAlert ==
    /\ hashing.pc = "shared"
    /\ hashing.cache[2] = Absent
    /\ HashingStep([hashing EXCEPT !.cache[2] = IF hashing.lock[1] = Free
                                                 THEN hashing.cache[1] ELSE None])

NextHashCache ==
    \/ \E t \in Readers, i \in Instances : HashCall(t, i)
    \/ \E t \in Readers : HashRead(t)
    \/ \E t \in Readers : HashLock(t)
    \/ \E t \in Readers : HashWrite(t)
    \/ CloneAlert

SpecHashCache == InitHashCache /\ [][NextHashCache]_vars

\* C34: the cached hash of an alert instance is write-once: once the cache holds Some(h)
\* it never returns to None or to another value; and every hash() call, of any number of
\* concurrent callers in any interleaving with the first computation, returns the same
\* h = H(sender, proof, legit_units).
C34_CachedHashWrittenOnce ==
    [][/\ \A i \in Instances :
              hashing.cache[i] \notin {None, Absent} => hashing'.cache[i] = hashing.cache[i]
       /\ \A i \in Instances :
              hashing'.cache[i] \in {Absent, None, Some(Hash(hashing.alert))}
       /\ \A t \in Readers :
              hashing'.readers[t].ret \in {NotCalled, Some(Hash(hashing.alert))}]_vars

\* two threads found the cache empty and both wrote it, a third was answered from the
\* cache, and the clone was taken while a writer held the lock
C34_Witness ==
    /\ hashing.cache = <<Some(Hash(hashing.alert)), Some(Hash(hashing.alert))>>
    /\ \A t \in Readers : hashing.readers[t].ret = Some(Hash(hashing.alert))
    /\ hashing.readers[1].hash # None /\ hashing.readers[1].on = 1
    /\ hashing.readers[2].hash # None /\ hashing.readers[2].on = 1
    /\ hashing.readers[3].hash = None /\ hashing.readers[3].on = 1
    /\ \A t \in Readers : hashing.readers[t].pc = "idle"

(***************************************************************************)
(* Completions reported more than once                                     *)
(***************************************************************************)

\* the Units notifications sent to consensus for the alert with hash h
UnitsSentFor(h) ==
    {i \in DOMAIN notifications_for_units :
        notifications_for_units[i] = Units(alerter.known_alerts[h].signable.legit_units)}

\* C35: for each alert hash h the service writes AlertData::MultisignedHash(h) to the
\* backup at most once and sends ForkingNotification::Units for h at most once, also when
\* the completion reaches handle_multisigned through both arms of the loop or is reported
\* again.
C35_CompletionRecordedAndNotifiedOnce ==
    \A h \in KnownHashes :
        /\ Cardinality(RecordsOf(MultisignedData(h))) <= 1
        /\ Cardinality(UnitsSentFor(h)) <= 1

(***************************************************************************)
(* Consistency of the handler's tables                                     *)
(***************************************************************************)

\* C36: after any sequence of handler operations every hash that is a value of known_rmcs
\* is a key of known_alerts, and for every alert in known_alerts its (sender, forker) pair
\* is a key of known_rmcs and its forker is in known_forkers.
C36_TablesConsistent ==
    /\ \A pair \in DOMAIN alerter.known_rmcs :
           alerter.known_rmcs[pair] \in DOMAIN alerter.known_alerts
    /\ \A h \in DOMAIN alerter.known_alerts :
           LET alert == alerter.known_alerts[h].signable
           IN  /\ <<alert.sender, forker_of(alert)>> \in DOMAIN alerter.known_rmcs
               /\ is_forker(alerter, forker_of(alert))

\* the handler holds two alerts of one peer about one forker, the second cached after the
\* pair was known, and a completion has moved the pair's designation
C36_Witness ==
    /\ call.op = "alert_confirmed"
    /\ Cardinality(DOMAIN alerter.known_alerts) = 2
    /\ Cardinality(DOMAIN alerter.known_rmcs) = 1
    /\ \E pair \in DOMAIN call.pre.known_rmcs :
           alerter.known_rmcs[pair] # call.pre.known_rmcs[pair]

(***************************************************************************)
(* Who changes a designation                                               *)
(***************************************************************************)

\* C37: an existing entry of known_rmcs for a (sender, forker) pair is changed only by
\* alert_confirmed, to the confirmed hash of an alert of that pair, or by on_own_alert
\* for the pair (alert.sender, forker), to that alert's hash; on_network_alert and the
\* handling of RMC messages and alert requests never change an existing entry, so a
\* peer's pair keeps the hash RMC was started on until a multisignature for the pair
\* completes.
C37_DesignationChangedOnlyByCompletionOrOwnAlert ==
    [][\A pair \in DOMAIN alerter.known_rmcs :
          alerter'.known_rmcs[pair] # alerter.known_rmcs[pair] =>
              \/ /\ call'.op = "alert_confirmed"
                 /\ alerter'.known_rmcs[pair] = call'.arg
                 /\ LET alert == alerter.known_alerts[call'.arg].signable
                    IN  pair = <<alert.sender, forker_of(alert)>>
              \/ /\ call'.op = "on_own_alert"
                 /\ pair = <<call'.arg.sender, forker_of(call'.arg)>>
                 /\ alerter'.known_rmcs[pair] = Hash(call'.arg)]_vars

\* a second own alert about the forker has replaced the designation of the own pair
C37_Witness ==
    /\ call.op = "on_own_alert"
    /\ <<Own, F>> \in DOMAIN call.pre.known_rmcs
    /\ alerter.known_rmcs[<<Own, F>>] # call.pre.known_rmcs[<<Own, F>>]

(***************************************************************************)
(* The loader in either build: Round arithmetic with and without overflow  *)
(* checks                                                                  *)
(***************************************************************************)

RECURSIVE verify_units_underflows(_, _, _, _)
\* verify_units from unit i on reaches `coord.round() - 1` for a unit of round 0: the units
\* before it passed the session check and had their parents loaded
verify_units_underflows(session, units, i, already_loaded_coords) ==
    IF i > Len(units) THEN FALSE
    ELSE IF units[i].session_id # session THEN FALSE
    ELSE IF units[i].parents_mask # {} /\ units[i].round = 0 THEN TRUE
    ELSE IF \E parent_id \in units[i].parents_mask :
                <<round_sub(units[i].round, 1), parent_id>> \notin already_loaded_coords
    THEN FALSE
    ELSE verify_units_underflows(session, units, i + 1,
                                 already_loaded_coords \cup {coord(units[i])})

\* `round + 1` in next_round_backup is computed for the last round of Round
next_round_backup_overflows(index, units) ==
    \E i \in DOMAIN units : units[i].creator = index /\ units[i].round = RoundMax

\* BackupLoader::run leaves the range of Round on this log: the log decodes, and either
\* verify_units subtracts from round 0 or it returns Ok and next_round_backup adds to the
\* last round
run_overflows(l) ==
    LET items == load(l.backup)
    IN  /\ items # None
        /\ LET units == units_of(items.val)
           IN  \/ verify_units_underflows(l.session_id, units, 1, {})
               \/ /\ verify_units(l.session_id, units, 1, {})
                  /\ next_round_backup_overflows(l.index, units)

\* in a build with overflow checks the overflow is a panic: run unwinds, its senders are
\* dropped and nothing was sent on any of them
LoaderAborts ==
    /\ loader.pc = "new"
    /\ run_overflows(loader)
    /\ loader' = [loader EXCEPT !.pc = "aborted"]
    /\ UNCHANGED <<alerter, handlerVars, schedule, hashing, units_from_runway, responses_for_runway, wire, nodes,
                   environment, pendingVars, backupVars, service, outVars, rmcVars>>

\* LoaderLoads is the build without overflow checks, LoaderAborts the build with them
NextLoaderBuilds == NextLoader \/ LoaderAborts

SpecLoaderBuilds == InitLoader /\ [][NextLoaderBuilds]_vars

\* run has ended, by a return or by a panic
LoaderEnded == loader.pc \in {"done", "aborted"}

\* the single success path: the log decoded and verified, the loaded data was taken, the
\* collection answered and the backup is not behind it
LoaderSucceeded ==
    /\ loader.loaded_data # NotCalled
    /\ loader.next_round_collection # NotCalled
    /\ loader.next_round_backup >= loader.next_round_collection.val

\* C38: when BackupLoader::run has ended it has sent one value on starting_round:
\* Some(next_round_backup) on the success path and None on every other path; it never ends
\* without having sent
C38_OneStartingRoundSent ==
    LoaderEnded =>
        /\ loader.starting_round # NotCalled
        /\ LoaderSucceeded => loader.starting_round = Some(loader.next_round_backup)
        /\ ~LoaderSucceeded => loader.starting_round = None

\* the same for the runs that return
C38_OneStartingRoundSentOnReturn ==
    loader.pc = "done" =>
        /\ loader.starting_round # NotCalled
        /\ LoaderSucceeded => loader.starting_round = Some(loader.next_round_backup)
        /\ ~LoaderSucceeded => loader.starting_round = None

\* unit i of the log is at round 0 and names a parent
RoundZeroWithParents(i) == LoadedUnits[i].round = 0 /\ LoadedUnits[i].parents_mask # {}

\* C39: the loader stays within the range of Round: a log of the loader's session with a
\* unit at round 0 that names a parent is refused with None, without loaded data, and a
\* signalled starting round is above every own round of the log
C39_RoundArithmeticInRange ==
    /\ (loader.pc # "new" /\ Loaded # None /\ ~WrongSession
           /\ \E i \in DOMAIN LoadedUnits : RoundZeroWithParents(i)) =>
           /\ loader.starting_round = None
           /\ loader.loaded_data = NotCalled
    /\ (loader.pc # "new" /\ Verifies) =>
           /\ loader.pc # "aborted"
           /\ \A r \in OwnRounds : loader.next_round_backup > r

(***************************************************************************)
(* Order in the saver                                                      *)
(***************************************************************************)

\* the whole records of the log, per channel, in log order
UnitsRecorded == UnitsWritten(backup)

AlertDataRecorded == alert_data_of(backup)

\* the saver takes the oldest unit, or the oldest alert data, and item is what it writes
TakesUnit(item) ==
    /\ units_from_runway # << >>
    /\ units_from_runway' = Tail(units_from_runway)
    /\ item = UnitItem(Head(units_from_runway))

TakesAlertData(item) ==
    /\ data_for_backup # << >>
    /\ data_for_backup' = Tail(data_for_backup)
    /\ item = AlertDataItem(Head(data_for_backup))

\* C40: the saver preserves order: a record is appended to the log in the step in which
\* its item is taken; the acknowledgements on each channel, followed by the items still
\* waiting on it, are the items in the order of their submission; the acknowledged items
\* are, one for one and in order, the whole records of their channel in the log, but for a
\* last record after which the saver ended (failed flush, or response channel closed)
C40_SaverPreservesOrder ==
    [][/\ backup' # backup =>
              \E item \in {UnitItem(u) : u \in SaverUnits} \cup {AlertDataItem(data) : data \in SaverData} :
                  /\ TakesUnit(item) \/ TakesAlertData(item)
                  /\ backup' \in {Append(backup, item), Append(backup, TornItem)}
       /\ responses_for_runway' # responses_for_runway =>
              /\ Len(responses_for_runway') = Len(responses_for_runway) + 1
              /\ responses_for_runway' \o units_from_runway'
                     = responses_for_runway \o units_from_runway
       /\ responses_from_backup' # responses_from_backup =>
              /\ Len(responses_from_backup') = Len(responses_from_backup) + 1
              /\ responses_from_backup' \o data_for_backup'
                     = responses_from_backup \o data_for_backup
       /\ IsPrefix(responses_for_runway', UnitsRecorded')
       /\ IsPrefix(responses_from_backup', AlertDataRecorded')
       /\ Len(UnitsRecorded') + Len(AlertDataRecorded')
              <= Len(responses_for_runway') + Len(responses_from_backup') + 1
       /\ Len(UnitsRecorded') + Len(AlertDataRecorded')
              # Len(responses_for_runway') + Len(responses_from_backup') => saver' = "stopped"
      ]_vars

\* two different alert data with a unit taken between them: three records in the order
\* taken, the two acknowledgements to the alerter in the order of submission
C40_Witness ==
    /\ Len(backup) = 3
    /\ backup[2].tag = "Unit"
    /\ responses_for_runway = <<backup[2].unit>>
    /\ backup[1].tag = "AlertData"
    /\ backup[3].tag = "AlertData"
    /\ backup[1] # backup[3]
    /\ responses_from_backup = <<backup[1].data, backup[3].data>>

====
